---- MODULE Spec2Model ----
(***************************************************************************)
(* Model of the DocumentDB gateway's telemetry lifecycle (main.rs,          *)
(* telemetry/*.rs) and of its admin command handlers                        *)
(* (processor/data_management.rs).                                          *)
(*                                                                          *)
(* Option<T> values are sets: None is {} and Some(x) is {x}.                *)
(* A panic unwinds (the default Rust profile): locals are dropped.          *)
(***************************************************************************)
EXTENDS Integers, Sequences, FiniteSets, TLC

VARIABLES
    env,                    \* process environment: variable name -> Option<String>
    config,                 \* TelemetryConfig (explicit JSON values)
    pc,                     \* position of start_gateway
    telemetry_manager,      \* Option<TelemetryManager> local of start_gateway
    telemetry_initialized,  \* bool local of start_gateway
    init_result,            \* outcome of TelemetryManager::init_telemetry
    subscriber,             \* Option<sequence of layers> installed by try_init
    global_tracer,          \* global::set_tracer_provider was called
    global_meter,           \* global::set_meter_provider was called
    TRACING_ENABLED,        \* static AtomicBool of telemetry/mod.rs
    provider_state,         \* state of the three SDK providers
    worker_guard,           \* state of the non-blocking console WorkerGuard
    gateway_telemetry,      \* Option<telemetry provider> handed to run_gateway
    shutdown_token,         \* SHUTDOWN_CONTROLLER token is cancelled
    shutdown_self,          \* the manager consumed by TelemetryManager::shutdown
    shutdown_result,        \* what TelemetryManager::shutdown returned
    warnings,               \* tracing::warn! lines written by shutdown
    events,                 \* observable effects, in program order
    request,                \* Option<the command last processed>
    response,               \* Option<what its handler returned>
    backend_calls,          \* calls made to PgDataClient by that handler
    collaborator_calls,     \* its calls to cursor::save_cursor and
                            \* PgResponse::transform_write_errors
    trace_comment,          \* Option<comment given to
                            \* extract_context_from_comment>
    trace_context,          \* Option<the active opentelemetry Context>
    query,                  \* Option<sql given to format_trace_comment>
    traced_sql,             \* Option<what format_trace_comment returned>
    resolved,               \* Option<the values the accessors of
                            \* TelemetryConfig resolve to>
    status_code,            \* Option<a call of error_code_to_status_code
                            \* and what it returned>
    measurements,           \* what the instruments of the shared
                            \* OtelTelemetryProvider have accumulated
    emitters,               \* the requests in emit_request_event: their
                            \* arguments, locals and position
    layering                \* the layers init_telemetry has given a level
                            \* filter so far, and its position

lifecycle_vars == <<env, config, pc, telemetry_manager, telemetry_initialized,
                    init_result, subscriber, global_tracer, global_meter,
                    TRACING_ENABLED, provider_state, worker_guard,
                    gateway_telemetry, shutdown_token, shutdown_self,
                    shutdown_result, warnings, events>>

command_vars == <<request, response, backend_calls, collaborator_calls>>

trace_vars == <<trace_comment, trace_context, query, traced_sql>>

recorder_vars == <<status_code, measurements, emitters, layering>>

vars == <<env, config, pc, telemetry_manager, telemetry_initialized,
          init_result, subscriber, global_tracer, global_meter,
          TRACING_ENABLED, provider_state, worker_guard,
          gateway_telemetry, shutdown_token, shutdown_self,
          shutdown_result, warnings, events,
          request, response, backend_calls, collaborator_calls,
          trace_comment, trace_context, query, traced_sql, resolved,
          status_code, measurements, emitters, layering>>

----------------------------------------------------------------------------
(* Option helpers *)

None == {}

Some(x) == {x}

is_some(o) == o # {}

unwrap(o) == CHOOSE x \in o : TRUE

or_else(o, alt) == IF is_some(o) THEN o ELSE alt

unwrap_or(o, default) == IF is_some(o) THEN unwrap(o) ELSE default

\* init_telemetry has not started to build its layers
no_layers == [pc |-> "create_logging_provider", layers |-> <<>>,
              env_changes |-> 0]

RECURSIVE filter_seq(_, _)
filter_seq(s, keep) ==
    IF s = <<>> THEN <<>>
    ELSE IF Head(s) \in keep THEN <<Head(s)>> \o filter_seq(Tail(s), keep)
         ELSE filter_seq(Tail(s), keep)

RECURSIVE count_in(_, _)
count_in(s, x) ==
    IF s = <<>> THEN 0
    ELSE (IF Head(s) = x THEN 1 ELSE 0) + count_in(Tail(s), x)

index_of(s, x) ==
    IF \E i \in 1..Len(s) : s[i] = x
    THEN CHOOSE i \in 1..Len(s) : s[i] = x /\ \A j \in 1..(i - 1) : s[j] # x
    ELSE 0

----------------------------------------------------------------------------
(* telemetry/config.rs, logging.rs, tracing.rs, metrics.rs: resolution of   *)
(* the enabled flags, explicit value > environment variable > default.      *)

EnvNames == {"OTEL_TRACING_ENABLED", "OTEL_METRICS_ENABLED",
             "OTEL_LOGGING_ENABLED", "OTEL_LOGS_CONSOLE_ENABLED"}

EnvValues == {None, Some("true"), Some("false"), Some("1")}

OptBool == {None, Some(TRUE), Some(FALSE)}

\* how many of the environment variables are set in a run
MaxEnvSet == 1

EnvChoices ==
    {e \in [EnvNames -> EnvValues] :
         Cardinality({n \in EnvNames : is_some(e[n])}) <= MaxEnvSet}

DEFAULT_TRACING_ENABLED == FALSE

DEFAULT_METRICS_ENABLED == TRUE

DEFAULT_LOGGING_ENABLED == TRUE

DEFAULT_CONSOLE_ENABLED == FALSE

\* <bool as FromStr>::from_str accepts exactly "true" and "false"
parse_bool(s) ==
    IF s = "true" THEN Some(TRUE)
    ELSE IF s = "false" THEN Some(FALSE)
    ELSE None

env_var(var) ==
    IF is_some(env[var]) THEN parse_bool(unwrap(env[var])) ELSE None

tracing_enabled(c) ==
    unwrap_or(or_else(c.enabled, env_var("OTEL_TRACING_ENABLED")),
              DEFAULT_TRACING_ENABLED)

metrics_enabled(c) ==
    unwrap_or(or_else(c.enabled, env_var("OTEL_METRICS_ENABLED")),
              DEFAULT_METRICS_ENABLED)

logging_enabled(c) ==
    unwrap_or(or_else(c.enabled, env_var("OTEL_LOGGING_ENABLED")),
              DEFAULT_LOGGING_ENABLED)

console_enabled(c) ==
    unwrap_or(or_else(c.console_enabled, env_var("OTEL_LOGS_CONSOLE_ENABLED")),
              DEFAULT_CONSOLE_ENABLED)

any_signal_enabled_ignores_logging(c) ==
    tracing_enabled(c.tracing) \/ metrics_enabled(c.metrics)

any_signal_enabled(c) ==
    tracing_enabled(c.tracing) \/ metrics_enabled(c.metrics)
        \/ logging_enabled(c.logging)

----------------------------------------------------------------------------
(* Provider construction.  `fails` is the set of signals whose OTLP         *)
(* exporter builder returns an error (an external outcome).                 *)

Providers == {"tracer", "meter", "logger"}

\* logging.rs create_logging_provider: (Option<provider>, layers) or Err
create_logging_provider(c, fails) ==
    IF logging_enabled(c)
    THEN IF "logger" \in fails
         THEN [ok |-> FALSE, error |-> "failed to build log exporter",
               provider |-> None, layers |-> <<>>]
         ELSE [ok |-> TRUE, error |-> "",
               provider |-> Some("logger"), layers |-> <<"log_bridge">>]
    ELSE [ok |-> TRUE, error |-> "", provider |-> None, layers |-> <<>>]

\* variant: the provider is built without looking at the enabled flag
create_tracer_provider_ignores_flag(c, fails) ==
    IF "tracer" \in fails
    THEN [ok |-> FALSE, error |-> "failed to build tracer exporter",
          provider |-> None]
    ELSE [ok |-> TRUE, error |-> "", provider |-> Some("tracer")]

\* tracing.rs create_tracer_provider
create_tracer_provider(c, fails) ==
    IF tracing_enabled(c)
    THEN IF "tracer" \in fails
         THEN [ok |-> FALSE, error |-> "failed to build tracer exporter",
               provider |-> None]
         ELSE [ok |-> TRUE, error |-> "", provider |-> Some("tracer")]
    ELSE [ok |-> TRUE, error |-> "", provider |-> None]

\* variant: an exporter build error is swallowed and treated as "disabled"
create_metrics_provider_swallows_error(c, fails) ==
    IF ~metrics_enabled(c) \/ "meter" \in fails
    THEN [ok |-> TRUE, error |-> "", provider |-> None]
    ELSE [ok |-> TRUE, error |-> "", provider |-> Some("meter")]

\* metrics.rs create_metrics_provider
create_metrics_provider(c, fails) ==
    IF ~metrics_enabled(c)
    THEN [ok |-> TRUE, error |-> "", provider |-> None]
    ELSE IF "meter" \in fails
         THEN [ok |-> FALSE, error |-> "failed to build metrics exporter",
               provider |-> None]
         ELSE [ok |-> TRUE, error |-> "", provider |-> Some("meter")]

no_providers == [p \in Providers |-> "none"]

\* what init_telemetry leaves behind when it returns Err after `built`
\* providers were constructed: the locals are dropped, a provider whose clone
\* was handed to opentelemetry::global stays live there.
init_failure(error, built, in_global, guard_created, evs) ==
    [manager |-> None,
     error |-> error,
     providers |-> [p \in Providers |->
                      IF p \in in_global THEN "live"
                      ELSE IF p \in built THEN "dropped" ELSE "none"],
     global_tracer |-> "tracer" \in in_global,
     global_meter |-> "meter" \in in_global,
     subscriber |-> None,
     worker_guard |-> IF guard_created THEN "dropped" ELSE "none",
     events |-> evs \o (IF guard_created THEN <<"guard.drop">> ELSE <<>>)]

\* telemetry_manager.rs TelemetryManager::init_telemetry.
\* `try_init_fails`: a global subscriber is already installed.
init_telemetry(cfg, fails, try_init_fails) ==
    LET log == create_logging_provider(cfg.logging, fails)
        trc == create_tracer_provider(cfg.tracing, fails)
        met == create_metrics_provider(cfg.metrics, fails)
        ev1 == IF is_some(log.provider) THEN <<"logger.build">> ELSE <<>>
        ev2 == ev1 \o (IF is_some(trc.provider) THEN <<"tracer.build">> ELSE <<>>)
        ev3 == ev2 \o (IF is_some(met.provider) THEN <<"meter.build">> ELSE <<>>)
        layers1 == log.layers
        layers2 == IF is_some(trc.provider)
                   THEN Append(layers1, "otel_trace") ELSE layers1
        console == console_enabled(cfg.logging)
        all_layers == IF console THEN Append(layers2, "console") ELSE layers2
        guards == IF console THEN 1 ELSE 0
        ev4 == ev3 \o (IF is_some(trc.provider)
                       THEN <<"set_tracer_provider">> ELSE <<>>)
        ev5 == ev4 \o (IF console THEN <<"guard.create">> ELSE <<>>)
        ev6 == ev5 \o (IF is_some(met.provider)
                       THEN <<"set_meter_provider">> ELSE <<>>)
        built == log.provider \cup trc.provider \cup met.provider
        in_global == trc.provider \cup met.provider
    IN  IF ~log.ok THEN init_failure(log.error, {}, {}, FALSE, <<>>)
        ELSE IF ~trc.ok
        THEN init_failure(trc.error, log.provider, {}, FALSE, ev1)
        ELSE IF ~met.ok
        THEN init_failure(met.error, log.provider \cup trc.provider, {},
                          FALSE, ev2)
        ELSE IF try_init_fails
        THEN init_failure("failed to initialize tracing subscriber",
                          built, in_global, console, ev6)
        ELSE [manager |-> Some([meter_provider |-> met.provider,
                                tracer_provider |-> trc.provider,
                                logger_provider |-> log.provider,
                                guards |-> guards]),
              error |-> "",
              providers |-> [p \in Providers |->
                               IF p \in built THEN "live" ELSE "none"],
              global_tracer |-> is_some(trc.provider),
              global_meter |-> is_some(met.provider),
              subscriber |-> Some(all_layers),
              worker_guard |-> IF console THEN "alive" ELSE "none",
              events |-> Append(ev6, "try_init")]

----------------------------------------------------------------------------
(* telemetry_manager.rs TelemetryManager::shutdown.  `fails` is the set of  *)
(* providers whose SDK shutdown() returns an error.                         *)

shutdown_event == [tracer |-> "tracer.shutdown", meter |-> "meter.shutdown",
                   logger |-> "logger.shutdown"]

ShutdownEvents == {shutdown_event[p] : p \in Providers}

\* variant: a later failure overwrites first_error instead of being logged
shutdown_provider_last_error_wins(st, field, fails) ==
    IF is_some(field)
    THEN LET name == unwrap(field)
             attempted == [st EXCEPT !.events = Append(@, shutdown_event[name]),
                                     !.attempted = @ \cup {name}]
         IN  IF name \in fails
             THEN [attempted EXCEPT !.first_error = Some(name)]
             ELSE attempted
    ELSE st

\* one `if let Some(provider) = self.<field> { ... }` block
shutdown_provider(st, field, fails) ==
    IF is_some(field)
    THEN LET name == unwrap(field)
             attempted == [st EXCEPT !.events = Append(@, shutdown_event[name]),
                                     !.attempted = @ \cup {name}]
         IN  IF name \in fails
             THEN IF attempted.first_error = None
                  THEN [attempted EXCEPT !.first_error = Some(name)]
                  ELSE [attempted EXCEPT !.warnings = Append(@, name)]
             ELSE attempted
    ELSE st

\* variant: each provider shutdown is propagated with `?`, so the first
\* failure returns before the later providers are attempted
shutdown_fail_fast(self, fails) ==
    LET st0 == [first_error |-> None, warnings |-> <<>>, events |-> <<>>,
                attempted |-> {}]
        st1 == shutdown_provider(st0, self.tracer_provider, fails)
        st2 == IF is_some(st1.first_error) THEN st1
               ELSE shutdown_provider(st1, self.meter_provider, fails)
        st3 == IF is_some(st2.first_error) THEN st2
               ELSE shutdown_provider(st2, self.logger_provider, fails)
    IN  [st3 EXCEPT !.events = IF self.guards > 0
                               THEN Append(@, "guard.drop") ELSE @]

shutdown(self, fails) ==
    LET st0 == [first_error |-> None, warnings |-> <<>>, events |-> <<>>,
                attempted |-> {}]
        st1 == shutdown_provider(st0, self.tracer_provider, fails)
        st2 == shutdown_provider(st1, self.meter_provider, fails)
        st3 == shutdown_provider(st2, self.logger_provider, fails)
    IN  \* `self` goes out of scope at the end: the remaining field, _guards,
        \* is dropped there
        [st3 EXCEPT !.events = IF self.guards > 0
                               THEN Append(@, "guard.drop") ELSE @]

\* mod.rs is_tracing_enabled
is_tracing_enabled == TRACING_ENABLED

\* mod.rs set_tracing_enabled (pub(crate); no caller in the sources modelled)
set_tracing_enabled(enabled) == TRACING_ENABLED' = enabled

----------------------------------------------------------------------------
(* main.rs start_gateway *)

ConfigValues ==
    [tracing : [enabled : OptBool],
     metrics : [enabled : OptBool],
     logging : [enabled : OptBool, console_enabled : OptBool]]

Init ==
    /\ env \in EnvChoices
    /\ config \in ConfigValues
    /\ pc = "start"
    /\ telemetry_manager = None
    /\ telemetry_initialized = FALSE
    /\ init_result = None
    /\ subscriber = None
    /\ global_tracer = FALSE
    /\ global_meter = FALSE
    /\ TRACING_ENABLED = FALSE
    /\ provider_state = no_providers
    /\ worker_guard = "none"
    /\ gateway_telemetry = None
    /\ shutdown_token = FALSE
    /\ shutdown_self = None
    /\ shutdown_result = None
    /\ warnings = <<>>
    /\ events = <<>>
    /\ request = None
    /\ response = None
    /\ backend_calls = <<>>
    /\ collaborator_calls = <<>>
    /\ trace_comment = None
    /\ trace_context = None
    /\ query = None
    /\ traced_sql = None
    /\ resolved = None
    /\ status_code = None
    /\ measurements = <<>>
    /\ emitters = <<>>
    /\ layering = no_layers

\* a panic in start_gateway unwinds: the telemetry_manager local is dropped
\* without shutdown(); providers cloned into opentelemetry::global stay live
Panic(why) ==
    /\ pc' = "panicked"
    /\ telemetry_manager' = None
    /\ IF is_some(telemetry_manager)
       THEN LET m == unwrap(telemetry_manager)
            IN  /\ provider_state' =
                       [p \in Providers |->
                          IF p = "logger" /\ is_some(m.logger_provider)
                          THEN "dropped" ELSE provider_state[p]]
                /\ worker_guard' = IF m.guards > 0 THEN "dropped"
                                   ELSE worker_guard
                /\ events' = events \o <<why, "manager.drop">>
                               \o (IF m.guards > 0 THEN <<"guard.drop">>
                                   ELSE <<>>)
       ELSE /\ events' = Append(events, why)
            /\ UNCHANGED <<provider_state, worker_guard>>

\* main.rs 54-80, telemetry engaged: init_telemetry is invoked
StartGatewayInitTelemetry(fails, try_init_fails) ==
    /\ pc = "start"
    /\ any_signal_enabled(config)
    /\ LET r == init_telemetry(config, fails, try_init_fails)
       IN  /\ telemetry_manager' = r.manager
           /\ telemetry_initialized' = is_some(r.manager)
           /\ init_result' = Some([ok |-> is_some(r.manager),
                                   error |-> r.error])
           /\ subscriber' = r.subscriber
           /\ global_tracer' = r.global_tracer
           /\ global_meter' = r.global_meter
           /\ provider_state' = r.providers
           /\ worker_guard' = r.worker_guard
           /\ events' = <<"init_telemetry">> \o r.events
    /\ pc' = "setup"
    /\ UNCHANGED <<env, config, TRACING_ENABLED, gateway_telemetry,
                   shutdown_token, shutdown_self, shutdown_result, warnings>>
    /\ UNCHANGED <<command_vars, trace_vars, resolved, recorder_vars>>

\* main.rs 54-80, no signal enabled: (None, false)
StartGatewayNoTelemetry ==
    /\ pc = "start"
    /\ ~any_signal_enabled(config)
    /\ telemetry_manager' = None
    /\ telemetry_initialized' = FALSE
    /\ pc' = "setup"
    /\ UNCHANGED <<env, config, init_result, subscriber, global_tracer,
                   global_meter, TRACING_ENABLED, provider_state, worker_guard,
                   gateway_telemetry, shutdown_token, shutdown_self,
                   shutdown_result, warnings, events>>
    /\ UNCHANGED <<command_vars, trace_vars, resolved, recorder_vars>>

\* main.rs 76-80: the spawned task receives Ctrl+C
CtrlC ==
    /\ pc \in {"setup", "serving"}
    /\ ~shutdown_token
    /\ shutdown_token' = TRUE
    /\ events' = Append(events, "ctrl_c")
    /\ UNCHANGED <<env, config, pc, telemetry_manager, telemetry_initialized,
                   init_result, subscriber, global_tracer, global_meter,
                   TRACING_ENABLED, provider_state, worker_guard,
                   gateway_telemetry, shutdown_self, shutdown_result, warnings>>
    /\ UNCHANGED <<command_vars, trace_vars, resolved, recorder_vars>>

\* variant: the provider is handed over whenever init_telemetry was invoked,
\* whether or not it succeeded
SetupGateway_provider_without_init ==
    /\ pc = "setup"
    /\ pc' = "serving"
    /\ gateway_telemetry' =
           Some(IF is_some(init_result) THEN "OtelTelemetryProvider"
                ELSE "None")
    /\ events' = Append(events, "run_gateway")
    /\ UNCHANGED <<env, config, telemetry_manager, telemetry_initialized,
                   init_result, subscriber, global_tracer, global_meter,
                   TRACING_ENABLED, provider_state, worker_guard,
                   shutdown_token, shutdown_self, shutdown_result, warnings>>
    /\ UNCHANGED <<command_vars, trace_vars, resolved, recorder_vars>>

\* main.rs 82-142: TLS provider, pools, service context, then run_gateway is
\* called with the telemetry provider
SetupGateway ==
    /\ pc = "setup"
    /\ pc' = "serving"
    /\ gateway_telemetry' =
           Some(IF telemetry_initialized THEN "OtelTelemetryProvider"
                ELSE "None")
    /\ events' = Append(events, "run_gateway")
    /\ UNCHANGED <<env, config, telemetry_manager, telemetry_initialized,
                   init_result, subscriber, global_tracer, global_meter,
                   TRACING_ENABLED, provider_state, worker_guard,
                   shutdown_token, shutdown_self, shutdown_result, warnings>>
    /\ UNCHANGED <<command_vars, trace_vars, resolved, recorder_vars>>

\* main.rs 82-88: TlsProvider::new(..).await.expect(..) panics
SetupGatewayPanics ==
    /\ pc = "setup"
    /\ Panic("setup.panic")
    /\ UNCHANGED <<env, config, telemetry_initialized, init_result, subscriber,
                   global_tracer, global_meter, TRACING_ENABLED,
                   gateway_telemetry, shutdown_token, shutdown_self,
                   shutdown_result, warnings>>
    /\ UNCHANGED <<command_vars, trace_vars, resolved, recorder_vars>>

\* main.rs 142-150: run_gateway returns Ok after the token was cancelled, then
\* the manager, if any, is shut down
RunGatewayOk(fails) ==
    /\ pc = "serving"
    /\ shutdown_token
    /\ pc' = "done"
    /\ telemetry_manager' = None
    /\ IF is_some(telemetry_manager)
       THEN LET self == unwrap(telemetry_manager)
                r == shutdown(self, fails)
            IN  /\ shutdown_self' = Some(self)
                /\ shutdown_result' =
                       Some(IF is_some(r.first_error)
                            THEN [ok |-> FALSE, error |-> unwrap(r.first_error)]
                            ELSE [ok |-> TRUE, error |-> ""])
                /\ warnings' = r.warnings
                /\ provider_state' =
                       [p \in Providers |->
                          IF p \in r.attempted
                          THEN (IF p \in fails THEN "shutdown_failed"
                                ELSE "shut_down")
                          ELSE provider_state[p]]
                /\ worker_guard' = IF self.guards > 0 THEN "dropped"
                                   ELSE worker_guard
                /\ events' = events \o <<"run_gateway.ok", "manager.shutdown">>
                               \o r.events
       ELSE /\ events' = Append(events, "run_gateway.ok")
            /\ UNCHANGED <<shutdown_self, shutdown_result, warnings,
                           provider_state, worker_guard>>
    /\ UNCHANGED <<env, config, telemetry_initialized, init_result, subscriber,
                   global_tracer, global_meter, TRACING_ENABLED,
                   gateway_telemetry, shutdown_token>>
    /\ UNCHANGED <<command_vars, trace_vars, resolved, recorder_vars>>

\* main.rs 142-144: run_gateway returns Err and .unwrap() panics
RunGatewayErr ==
    /\ pc = "serving"
    /\ Panic("run_gateway.err")
    /\ UNCHANGED <<env, config, telemetry_initialized, init_result, subscriber,
                   global_tracer, global_meter, TRACING_ENABLED,
                   gateway_telemetry, shutdown_token, shutdown_self,
                   shutdown_result, warnings>>
    /\ UNCHANGED <<command_vars, trace_vars, resolved, recorder_vars>>

Next ==
    \/ \E fails \in SUBSET Providers, try_init_fails \in BOOLEAN :
           StartGatewayInitTelemetry(fails, try_init_fails)
    \/ StartGatewayNoTelemetry
    \/ CtrlC
    \/ SetupGateway
    \/ SetupGatewayPanics
    \/ \E fails \in SUBSET Providers : RunGatewayOk(fails)
    \/ RunGatewayErr

Spec == Init /\ [][Next]_vars

----------------------------------------------------------------------------
(* Properties of the telemetry lifecycle *)

ShutdownOrder == <<"tracer", "meter", "logger">>

held(m) == m.tracer_provider \cup m.meter_provider \cup m.logger_provider

init_succeeded == is_some(init_result) /\ unwrap(init_result).ok

signal_enabled(p) ==
    CASE p = "tracer" -> tracing_enabled(config.tracing)
      [] p = "meter" -> metrics_enabled(config.metrics)
      [] p = "logger" -> logging_enabled(config.logging)

\* C1: once shutdown has run, the provider shutdown attempts recorded are
\* exactly the providers the consumed manager held, each once, in the order
\* tracer, meter, logger, whichever of them failed; providers never created
\* are not attempted.
C1_ShutdownAttemptsEveryProvider ==
    is_some(shutdown_self) =>
        LET expected == filter_seq(ShutdownOrder, held(unwrap(shutdown_self)))
            attempts == filter_seq(events, ShutdownEvents)
        IN  /\ Len(attempts) = Len(expected)
            /\ \A i \in 1..Len(expected) :
                   attempts[i] = shutdown_event[expected[i]]
            /\ \A p \in Providers :
                   provider_state[p] = "none" =>
                       count_in(events, shutdown_event[p]) = 0

C1_Witness ==
    /\ is_some(shutdown_self)
    /\ held(unwrap(shutdown_self)) = Providers
    /\ provider_state["tracer"] = "shutdown_failed"
    /\ provider_state["meter"] = "shut_down"
    /\ provider_state["logger"] = "shutdown_failed"

\* C2: shutdown returns Ok iff no attempted provider failed; otherwise its
\* error is that of the first failing provider in the order tracer, meter,
\* logger and every later failure is one warning line, in order.
C2_ShutdownFirstErrorWins ==
    is_some(shutdown_self) =>
        LET failed == filter_seq(ShutdownOrder,
                                 {p \in Providers :
                                    provider_state[p] = "shutdown_failed"})
            res == unwrap(shutdown_result)
        IN  /\ res.ok <=> failed = <<>>
            /\ failed = <<>> => warnings = <<>>
            /\ failed # <<>> => /\ res.error = Head(failed)
                                /\ warnings = Tail(failed)

C2_Witness ==
    /\ is_some(shutdown_result)
    /\ ~unwrap(shutdown_result).ok
    /\ unwrap(shutdown_result).error = "meter"
    /\ warnings = <<"logger">>
    /\ provider_state["tracer"] = "shut_down"

\* C3: while the manager returned by a successful init is held, it holds a
\* provider for exactly the enabled signals, the installed subscriber has one
\* log-bridge layer iff logging is enabled, one trace layer iff tracing is
\* enabled, one console layer iff console mirroring is enabled and no other
\* layer, and the tracer/meter are the process-wide defaults iff present.
C3_ProvidersAndLayersMatchEnabledSignals ==
    is_some(telemetry_manager) =>
        LET m == unwrap(telemetry_manager)
            layers == unwrap(subscriber)
            one_iff(b) == IF b THEN 1 ELSE 0
        IN  /\ is_some(subscriber)
            /\ is_some(m.logger_provider) <=> logging_enabled(config.logging)
            /\ is_some(m.tracer_provider) <=> tracing_enabled(config.tracing)
            /\ is_some(m.meter_provider) <=> metrics_enabled(config.metrics)
            /\ count_in(layers, "log_bridge")
                   = one_iff(logging_enabled(config.logging))
            /\ count_in(layers, "otel_trace")
                   = one_iff(tracing_enabled(config.tracing))
            /\ count_in(layers, "console")
                   = one_iff(console_enabled(config.logging))
            /\ Len(layers) = count_in(layers, "log_bridge")
                               + count_in(layers, "otel_trace")
                               + count_in(layers, "console")
            /\ global_tracer <=> is_some(m.tracer_provider)
            /\ global_meter <=> is_some(m.meter_provider)

C3_Witness ==
    /\ is_some(telemetry_manager)
    /\ unwrap(telemetry_manager).logger_provider = None
    /\ is_some(unwrap(telemetry_manager).tracer_provider)
    /\ unwrap(telemetry_manager).meter_provider = None
    /\ subscriber = Some(<<"otel_trace", "console">>)
    /\ env["OTEL_LOGGING_ENABLED"] = Some("false")

\* C4: an init_telemetry call in which the exporter of an enabled signal
\* fails to build returns the error of the first such signal in the order
\* logger, tracer, meter and yields no manager; a manager is returned only
\* when no enabled signal failed and the subscriber was installed, and then
\* every enabled signal's provider is live.
C4_InitFailsOnExporterFailure ==
    [][\A fails \in SUBSET Providers, try_init_fails \in BOOLEAN :
           StartGatewayInitTelemetry(fails, try_init_fails) =>
               LET failing == {p \in fails : signal_enabled(p)}
                   res == unwrap(init_result')
               IN  /\ failing # {} =>
                          /\ telemetry_manager' = None
                          /\ ~telemetry_initialized'
                          /\ ~res.ok
                          /\ res.error =
                                 IF "logger" \in failing
                                 THEN "failed to build log exporter"
                                 ELSE IF "tracer" \in failing
                                 THEN "failed to build tracer exporter"
                                 ELSE "failed to build metrics exporter"
                   /\ is_some(telemetry_manager') =>
                          /\ failing = {}
                          /\ ~try_init_fails
                          /\ res.ok
                          /\ is_some(subscriber')
                          /\ \A p \in Providers :
                                 signal_enabled(p) =>
                                     provider_state'[p] = "live"]_vars

C4_Witness ==
    /\ pc = "setup"
    /\ is_some(init_result)
    /\ unwrap(init_result).error = "failed to build tracer exporter"
    /\ provider_state["logger"] = "dropped"
    /\ metrics_enabled(config.metrics)
    /\ telemetry_manager = None

\* C5: whatever the telemetry outcome, start_gateway goes on to set up and
\* run the gateway (only the non-telemetry setup or the gateway itself can
\* stop it), and the provider handed to run_gateway is Some iff
\* init_telemetry was invoked and succeeded.
C5_TelemetryNeverStopsGateway ==
    [][/\ pc = "start" => pc' = "setup"
       /\ pc = "setup" => ENABLED SetupGateway
       /\ pc' = "panicked" => pc \in {"setup", "serving"}
       /\ (pc = "setup" /\ pc' = "serving") =>
              gateway_telemetry' =
                  Some(IF init_succeeded THEN "OtelTelemetryProvider"
                       ELSE "None")]_vars

C5_Witness ==
    /\ pc = "serving"
    /\ is_some(init_result)
    /\ ~unwrap(init_result).ok
    /\ gateway_telemetry = Some("None")

\* C6 (as claimed): once run_gateway has returned, with Ok or with an error,
\* the shutdown of a manager that was created has been invoked exactly once,
\* and it is never invoked before run_gateway returned.
C6_ShutdownAfterGatewayReturns ==
    LET returned == count_in(events, "run_gateway.ok")
                      + count_in(events, "run_gateway.err")
    IN  /\ (returned > 0 /\ init_succeeded) =>
               count_in(events, "manager.shutdown") = 1
        /\ count_in(events, "manager.shutdown") > 0 =>
               /\ returned = 1
               /\ index_of(events, "run_gateway.ok")
                      < index_of(events, "manager.shutdown")

\* C7 (as claimed): the flush guard exists iff console logging is enabled,
\* is alive whenever the manager is held, and is released only by shutdown,
\* after the provider shutdown attempts.
C7_GuardReleasedOnlyByShutdown ==
    /\ is_some(telemetry_manager) =>
           /\ unwrap(telemetry_manager).guards
                  = (IF console_enabled(config.logging) THEN 1 ELSE 0)
           /\ worker_guard = (IF console_enabled(config.logging)
                              THEN "alive" ELSE "none")
    /\ (init_succeeded /\ worker_guard = "dropped") =>
           /\ is_some(shutdown_self)
           /\ events[Len(events)] = "guard.drop"
           /\ \A i \in 1..Len(events) :
                  events[i] \in ShutdownEvents =>
                      i < index_of(events, "guard.drop")

\* C8 (as claimed): the tracing-enabled flag is false before initialization
\* and, once init_telemetry has succeeded, is_tracing_enabled() is true iff
\* the tracing signal was enabled at init.
C8_TracingFlagSetAtInit ==
    /\ pc = "start" => ~is_tracing_enabled
    /\ init_succeeded =>
           (is_tracing_enabled <=> tracing_enabled(config.tracing))

----------------------------------------------------------------------------
(* processor/data_management.rs: the admin-only commands.                   *)
(*                                                                          *)
(* A command document is a sequence of fields [key, type, str, doc]: `type` *)
(* is the BSON element type, `str` the scalar value as text and `doc` the   *)
(* fields [key, type, str] of a sub-document.                               *)

MaxFields == 2

MaxOptions == 2

field(key, type, str) == [key |-> key, type |-> type, str |-> str, doc |-> <<>>]

document_field(key, doc) ==
    [key |-> key, type |-> "Document", str |-> "", doc |-> doc]

option(key, type, str) == [key |-> key, type |-> type, str |-> str]

seqs_up_to(S, n) == UNION {[1..k -> S] : k \in 0..n}

OptionFields ==
    {option("allParameters", "Boolean", "true"),
     option("showDetails", "Int32", "1"),
     option("showDetails", "String", "yes"),
     option("comment", "String", "x")}

RestFields ==
    {field("op", "String", "1234"),
     field("op", "String", "5678"),
     field("op", "Int32", "1234"),
     field("featureCompatibilityVersion", "Int32", "1")}

FirstFields(command) ==
    IF command = "killOp"
    THEN {field("killOp", "Int32", "1")}
    ELSE {field("getParameter", "String", "*"),
          field("getParameter", "Int32", "1")}
         \cup {document_field("getParameter", d) :
                   d \in seqs_up_to(OptionFields, MaxOptions)}

Databases == {Some("admin"), Some("test"), None}

\* db = None: request_info.db() cannot resolve the target database
Requests(command) ==
    {[command |-> command, db |-> db, document |-> <<first>> \o rest] :
         db \in Databases,
         first \in FirstFields(command),
         rest \in seqs_up_to(RestFields, MaxFields)}

Ok == [ok |-> TRUE, code |-> ""]

Err(code) == [ok |-> FALSE, code |-> code]

\* what PgDataClient returns when it is called
BackendResults == {Ok, Err("BackendError")}

backend_call(fn, op_id, all, show_details, params) ==
    [fn |-> fn, op_id |-> op_id, all |-> all, show_details |-> show_details,
     params |-> params]

\* bson::convert_to_bool: booleans and numbers convert, nothing else does
convert_to_bool(v) ==
    IF v.type = "Boolean" THEN Some(v.str = "true")
    ELSE IF v.type \in {"Int32", "Int64", "Double"} THEN Some(v.str # "0")
    ELSE None

\* variant: the value of "op" is taken whatever its type is
kill_op_field_accepts_any_type(st, f) ==
    IF f.key = "op" THEN [st EXCEPT !.operation_id = Some(f.str)] ELSE st

\* the closure of process_kill_op (lines 256-274)
kill_op_field(st, f) ==
    IF f.key = "op"
    THEN IF f.type = "String"
         THEN [st EXCEPT !.operation_id = Some(f.str)]
         ELSE [st EXCEPT !.ok = FALSE, !.error = "TypeMismatch"]
    ELSE st

\* one iteration of the `for pair in doc` loop of process_get_parameter
\* (lines 329-344)
get_parameter_option(st, o) ==
    IF o.key = "allParameters"
    THEN IF is_some(convert_to_bool(o))
         THEN [st EXCEPT !.all_parameters = unwrap(convert_to_bool(o))]
         ELSE [st EXCEPT !.ok = FALSE, !.error = "TypeMismatch"]
    ELSE IF o.key = "showDetails"
    THEN IF is_some(convert_to_bool(o))
         THEN [st EXCEPT !.show_details = unwrap(convert_to_bool(o))]
         ELSE [st EXCEPT !.ok = FALSE, !.error = "TypeMismatch"]
    ELSE st

\* the `for pair in doc` loop (lines 328-345): `?` leaves at the first error
RECURSIVE get_parameter_options(_, _)
get_parameter_options(doc, st) ==
    IF doc = <<>> THEN st
    ELSE LET next == get_parameter_option(st, Head(doc))
         IN  IF next.ok THEN get_parameter_options(Tail(doc), next) ELSE next

\* the closure of process_get_parameter (lines 322-351)
get_parameter_field(st, f) ==
    IF f.key = "getParameter"
    THEN IF f.type = "String" /\ f.str = "*"
         THEN [st EXCEPT !.star = TRUE]
         ELSE IF f.type = "Document"
         THEN get_parameter_options(f.doc, st)
         ELSE st
    ELSE [st EXCEPT !.params = Append(@, f.key)]

\* the closure a handler passes to extract_fields
call_closure(command, st, f) ==
    IF command = "killOp" THEN kill_op_field(st, f)
    ELSE get_parameter_field(st, f)

\* Request::extract_fields: the closure is applied to the fields in document
\* order and its first error ends the iteration
RECURSIVE extract_fields(_, _, _)
extract_fields(document, command, st) ==
    IF document = <<>> THEN st
    ELSE LET next == call_closure(command, st, Head(document))
         IN  IF next.ok THEN extract_fields(Tail(document), command, next)
             ELSE next

\* variant: the backend is called before the admin guard is evaluated
process_kill_op_calls_before_guard(req, backend_result) ==
    LET ex == extract_fields(req.document, "killOp",
                             [ok |-> TRUE, error |-> "",
                              operation_id |-> None])
    IN  IF ~ex.ok THEN [response |-> Err(ex.error), calls |-> <<>>]
        ELSE IF ex.operation_id = None
        THEN [response |-> Err("BadValue"), calls |-> <<>>]
        ELSE IF req.db = None
        THEN [response |-> Err("DbError"), calls |-> <<>>]
        ELSE LET call == backend_call("execute_kill_op",
                                      unwrap(ex.operation_id), FALSE, FALSE,
                                      <<>>)
             IN  IF unwrap(req.db) # "admin"
                 THEN [response |-> Err("Unauthorized"), calls |-> <<call>>]
                 ELSE [response |-> backend_result, calls |-> <<call>>]

\* process_kill_op
process_kill_op(req, backend_result) ==
    LET ex == extract_fields(req.document, "killOp",
                             [ok |-> TRUE, error |-> "",
                              operation_id |-> None])
    IN  IF ~ex.ok THEN [response |-> Err(ex.error), calls |-> <<>>]
        ELSE IF ex.operation_id = None
        THEN [response |-> Err("BadValue"), calls |-> <<>>]
        ELSE IF req.db = None
        THEN [response |-> Err("DbError"), calls |-> <<>>]
        ELSE IF unwrap(req.db) # "admin"
        THEN [response |-> Err("Unauthorized"), calls |-> <<>>]
        ELSE [response |-> backend_result,
              calls |-> <<backend_call("execute_kill_op",
                                       unwrap(ex.operation_id), FALSE, FALSE,
                                       <<>>)>>]

\* get_parameter (lines 292-309)
get_parameter(all, show_details, params, backend_result) ==
    [response |-> backend_result,
     calls |-> <<backend_call("execute_get_parameter", "", all, show_details,
                              params)>>]

\* variant: the "*" wildcard does not override the collected arguments
process_get_parameter_star_keeps_arguments(req, backend_result) ==
    LET ex == extract_fields(req.document, "getParameter",
                             [ok |-> TRUE, error |-> "",
                              all_parameters |-> FALSE,
                              show_details |-> FALSE, star |-> FALSE,
                              params |-> <<>>])
    IN  IF ~ex.ok THEN [response |-> Err(ex.error), calls |-> <<>>]
        ELSE IF req.db = None
        THEN [response |-> Err("DbError"), calls |-> <<>>]
        ELSE IF unwrap(req.db) # "admin"
        THEN [response |-> Err("Unauthorized"), calls |-> <<>>]
        ELSE get_parameter(ex.star \/ ex.all_parameters, ex.show_details,
                           ex.params, backend_result)

\* process_get_parameter
process_get_parameter(req, backend_result) ==
    LET ex == extract_fields(req.document, "getParameter",
                             [ok |-> TRUE, error |-> "",
                              all_parameters |-> FALSE,
                              show_details |-> FALSE, star |-> FALSE,
                              params |-> <<>>])
    IN  IF ~ex.ok THEN [response |-> Err(ex.error), calls |-> <<>>]
        ELSE IF req.db = None
        THEN [response |-> Err("DbError"), calls |-> <<>>]
        ELSE IF unwrap(req.db) # "admin"
        THEN [response |-> Err("Unauthorized"), calls |-> <<>>]
        ELSE IF ex.star
        THEN get_parameter(TRUE, FALSE, <<>>, backend_result)
        ELSE get_parameter(ex.all_parameters, ex.show_details, ex.params,
                           backend_result)

ProcessKillOp(req, backend_result) ==
    /\ pc = "serving"
    /\ request = None
    /\ LET r == process_kill_op(req, backend_result)
       IN  /\ request' = Some(req)
           /\ response' = Some(r.response)
           /\ backend_calls' = r.calls
           /\ collaborator_calls' = <<>>
    /\ UNCHANGED <<lifecycle_vars, trace_vars, resolved, recorder_vars>>

ProcessGetParameter(req, backend_result) ==
    /\ pc = "serving"
    /\ request = None
    /\ LET r == process_get_parameter(req, backend_result)
       IN  /\ request' = Some(req)
           /\ response' = Some(r.response)
           /\ backend_calls' = r.calls
           /\ collaborator_calls' = <<>>
    /\ UNCHANGED <<lifecycle_vars, trace_vars, resolved, recorder_vars>>

\* the response was written to the client and the RequestContext is gone;
\* the connection waits for its next command
CompleteRequest ==
    /\ pc = "serving"
    /\ is_some(request)
    /\ request' = None
    /\ response' = None
    /\ backend_calls' = <<>>
    /\ collaborator_calls' = <<>>
    /\ UNCHANGED <<lifecycle_vars, trace_vars, resolved, recorder_vars>>

\* the gateway is serving, telemetry switched off in the configuration
InitCmd ==
    /\ env = [n \in EnvNames |-> None]
    /\ config = [tracing |-> [enabled |-> Some(FALSE)],
                 metrics |-> [enabled |-> Some(FALSE)],
                 logging |-> [enabled |-> Some(FALSE),
                              console_enabled |-> None]]
    /\ pc = "serving"
    /\ telemetry_manager = None
    /\ telemetry_initialized = FALSE
    /\ init_result = None
    /\ subscriber = None
    /\ global_tracer = FALSE
    /\ global_meter = FALSE
    /\ TRACING_ENABLED = FALSE
    /\ provider_state = no_providers
    /\ worker_guard = "none"
    /\ gateway_telemetry = Some("None")
    /\ shutdown_token = FALSE
    /\ shutdown_self = None
    /\ shutdown_result = None
    /\ warnings = <<>>
    /\ events = <<"run_gateway">>
    /\ request = None
    /\ response = None
    /\ backend_calls = <<>>
    /\ collaborator_calls = <<>>
    /\ trace_comment = None
    /\ trace_context = None
    /\ query = None
    /\ traced_sql = None
    /\ resolved = None
    /\ status_code = None
    /\ measurements = <<>>
    /\ emitters = <<>>
    /\ layering = no_layers

NextCmd ==
    \/ \E req \in Requests("killOp"), b \in BackendResults :
           ProcessKillOp(req, b)
    \/ \E req \in Requests("getParameter"), b \in BackendResults :
           ProcessGetParameter(req, b)
    \/ CompleteRequest

SpecCmd == InitCmd /\ [][NextCmd]_vars

----------------------------------------------------------------------------
(* Properties of the admin-only commands *)

the_request == unwrap(request)

the_response == unwrap(response)

CommandLevelErrors == {"Unauthorized", "BadValue", "TypeMismatch", "DbError"}

\* every "op" field is a string and there is one
kill_op_fields_valid(doc) ==
    /\ \E i \in 1..Len(doc) : doc[i].key = "op"
    /\ \A i \in 1..Len(doc) : doc[i].key = "op" => doc[i].type = "String"

\* every allParameters/showDetails option converts to a bool
get_parameter_fields_valid(doc) ==
    \A i \in 1..Len(doc) :
        (doc[i].key = "getParameter" /\ doc[i].type = "Document") =>
            \A j \in 1..Len(doc[i].doc) :
                doc[i].doc[j].key \in {"allParameters", "showDetails"} =>
                    doc[i].doc[j].type \in {"Boolean", "Int32", "Int64",
                                            "Double"}

fields_valid(req) ==
    IF req.command = "killOp" THEN kill_op_fields_valid(req.document)
    ELSE get_parameter_fields_valid(req.document)

\* C9 (as claimed): a getParameter or killOp whose database is not "admin"
\* fails with Unauthorized whatever its other fields are, and one against
\* "admin" with valid fields reaches the backend.
C9_NonAdminIsUnauthorized ==
    is_some(request) =>
        /\ (is_some(the_request.db) /\ the_request.db # Some("admin")) =>
               the_response = Err("Unauthorized")
        /\ (the_request.db = Some("admin") /\ fields_valid(the_request)) =>
               Len(backend_calls) = 1

\* C10: the handler calls the backend at most once, never when it returns a
\* command-level error, and only for a request against "admin" whose fields
\* all passed validation.
C10_NoBackendCallOnCommandError ==
    is_some(request) =>
        /\ Len(backend_calls) <= 1
        /\ (~the_response.ok /\ the_response.code \in CommandLevelErrors) =>
               backend_calls = <<>>
        /\ Len(backend_calls) = 1 =>
               /\ the_request.db = Some("admin")
               /\ fields_valid(the_request)
               /\ backend_calls[1].fn =
                      (IF the_request.command = "killOp"
                       THEN "execute_kill_op" ELSE "execute_get_parameter")

C10_Witness ==
    /\ is_some(request)
    /\ the_request.command = "killOp"
    /\ the_request.db = Some("test")
    /\ kill_op_fields_valid(the_request.document)
    /\ the_response = Err("Unauthorized")
    /\ backend_calls = <<>>

\* the positions of the fields of a document that carry a key
positions(doc, key) == {i \in 1..Len(doc) : doc[i].key = key}

last_position(doc, key) ==
    CHOOSE i \in positions(doc, key) : \A j \in positions(doc, key) : j <= i

\* C11: a killOp against "admin" fails with BadValue when the command has no
\* "op" field and with TypeMismatch when it has an "op" field that is not a
\* string, in both cases without a backend call; otherwise the backend kill
\* operation is called once with the string value of "op" (the last one when
\* the field is repeated), whatever the other fields are, and its result is
\* the response.
C11_KillOpRequiresStringOp ==
    (is_some(request) /\ the_request.command = "killOp"
         /\ the_request.db = Some("admin")) =>
        LET doc == the_request.document
            ops == positions(doc, "op")
        IN  IF ops = {}
            THEN the_response = Err("BadValue") /\ backend_calls = <<>>
            ELSE IF \E i \in ops : doc[i].type # "String"
            THEN the_response = Err("TypeMismatch") /\ backend_calls = <<>>
            ELSE /\ backend_calls
                       = <<backend_call("execute_kill_op",
                                        doc[last_position(doc, "op")].str,
                                        FALSE, FALSE, <<>>)>>
                 /\ the_response \in BackendResults

C11_Witness ==
    /\ is_some(request)
    /\ the_request.command = "killOp"
    /\ the_request.db = Some("admin")
    /\ the_request.document = <<field("killOp", "Int32", "1"),
                                field("featureCompatibilityVersion", "Int32",
                                      "1"),
                                field("op", "String", "5678")>>
    /\ Len(backend_calls) = 1
    /\ backend_calls[1].op_id = "5678"
    /\ the_response = Ok

\* the value getParameter hands over for an option: the converted value of
\* the last entry with that key, false when there is none
option_value(options, key) ==
    IF positions(options, key) = {} THEN FALSE
    ELSE unwrap(convert_to_bool(options[last_position(options, key)]))

\* the keys of the fields after the command field
other_field_names(doc) == [i \in 1..(Len(doc) - 1) |-> doc[i + 1].key]

\* C12: a getParameter against "admin" whose getParameter field is "*" calls
\* the backend with all = true, showDetails = false and no parameter names,
\* whatever the other fields are; otherwise an allParameters or showDetails
\* option that does not convert to a bool fails with TypeMismatch, and else
\* the backend is called with the converted options (false when absent,
\* other option keys ignored) and with the names of the other top-level
\* fields in document order.
C12_GetParameterArguments ==
    (is_some(request) /\ the_request.command = "getParameter"
         /\ the_request.db = Some("admin")) =>
        LET doc == the_request.document
            first == doc[1]
            options == IF first.type = "Document" THEN first.doc ELSE <<>>
        IN  IF first.type = "String" /\ first.str = "*"
            THEN /\ backend_calls
                       = <<backend_call("execute_get_parameter", "", TRUE,
                                        FALSE, <<>>)>>
                 /\ the_response \in BackendResults
            ELSE IF \E j \in 1..Len(options) :
                        /\ options[j].key \in {"allParameters", "showDetails"}
                        /\ convert_to_bool(options[j]) = None
            THEN the_response = Err("TypeMismatch") /\ backend_calls = <<>>
            ELSE /\ backend_calls
                       = <<backend_call("execute_get_parameter", "",
                                        option_value(options, "allParameters"),
                                        option_value(options, "showDetails"),
                                        other_field_names(doc))>>
                 /\ the_response \in BackendResults

C12_Witness ==
    /\ is_some(request)
    /\ the_request.command = "getParameter"
    /\ the_request.db = Some("admin")
    /\ the_request.document[1] = field("getParameter", "String", "*")
    /\ Len(the_request.document) = 3
    /\ backend_calls = <<backend_call("execute_get_parameter", "", TRUE,
                                       FALSE, <<>>)>>

----------------------------------------------------------------------------
(* processor/data_management.rs: collStats and dbStats.                     *)
(*                                                                          *)
(* An integer is [neg, a, b, c], of magnitude a * 2^42 + b * 2^21 + c with  *)
(* b, c < 2^21; an f64 is [neg, a, b, c, half], of magnitude that integer   *)
(* plus 1/2 when `half` is set.  An f64 keeps 53 significant bits.          *)

Limb == 2^21

int(neg, a, b, c) == [neg |-> neg, a |-> a, b |-> b, c |-> c]

f64(neg, a, b, c, half) ==
    [neg |-> neg, a |-> a, b |-> b, c |-> c, half |-> half]

\* the number of bits of a positive integer
RECURSIVE bit_length(_)
bit_length(n) == IF n = 0 THEN 0 ELSE 1 + bit_length(n \div 2)

\* `x as f64` for an i64: round to nearest, ties to even, on the bits below
\* the 53 most significant ones
i64_as_f64(x) ==
    LET d == bit_length(x.a) - 11
    IN  IF d <= 0 THEN f64(x.neg, x.a, x.b, x.c, FALSE)
        ELSE LET q == x.c \div (2^d)
                 r == x.c % (2^d)
                 up == r > 2^(d - 1) \/ (r = 2^(d - 1) /\ q % 2 = 1)
                 c1 == (IF up THEN q + 1 ELSE q) * (2^d)
                 b1 == IF c1 = Limb THEN x.b + 1 ELSE x.b
                 a1 == IF b1 = Limb THEN x.a + 1 ELSE x.a
             IN  f64(x.neg, a1, b1 % Limb, c1 % Limb, FALSE)

\* f64::from(i32) is exact
f64_from_i32(x) == f64(x.neg, x.a, x.b, x.c, FALSE)

one == f64(FALSE, 0, 0, 1, FALSE)

\* a field of a collStats/dbStats document: [key, type, value]
value_field(key, type, value) == [key |-> key, type |-> type, value |-> value]

Int64Scales ==
    {int(FALSE, 0, 0, 9),                          \* 9
     int(FALSE, 2^11, 0, 1),                       \* 2^53 + 1
     int(TRUE, 2^11, 0, 3),                        \* -(2^53 + 3)
     int(FALSE, Limb - 1, Limb - 1, Limb - 1)}     \* i64::MAX

ScaleFields ==
    {value_field("scale", "Double", f64(FALSE, 0, 0, 2, TRUE)),
     value_field("scale", "Int32", int(FALSE, 0, 0, 4)),
     value_field("scale", "Undefined", ""),
     value_field("scale", "Null", ""),
     value_field("scale", "String", "2"),
     value_field("scale", "Boolean", "true"),
     value_field("comment", "String", "x")}
        \cup {value_field("scale", "Int64", x) : x \in Int64Scales}

StatsRequests(command) ==
    {[command |-> command,
      document |-> <<value_field(command, "String", "coll")>> \o rest] :
         rest \in seqs_up_to(ScaleFields, MaxFields)}

\* DocumentDBError::documentdb_error(code, message)
documentdb_error(code, message) ==
    [ok |-> FALSE, code |-> code, message |-> message]

\* RawDocument::get: the first field with that key
get(document, key) ==
    IF positions(document, key) = {} THEN None
    ELSE Some(document[CHOOSE i \in positions(document, key) :
                           \A j \in positions(document, key) : i <= j])

\* variant: a type that is not numeric is taken as "no scale"
convert_to_scale_lenient(scale) ==
    IF scale.type = "Double" THEN [ok |-> TRUE, value |-> scale.value]
    ELSE IF scale.type = "Int32"
    THEN [ok |-> TRUE, value |-> f64_from_i32(scale.value)]
    ELSE IF scale.type = "Int64"
    THEN [ok |-> TRUE, value |-> i64_as_f64(scale.value)]
    ELSE [ok |-> TRUE, value |-> one]

\* convert_to_scale
convert_to_scale(scale) ==
    IF scale.type = "Double" THEN [ok |-> TRUE, value |-> scale.value]
    ELSE IF scale.type = "Int32"
    THEN [ok |-> TRUE, value |-> f64_from_i32(scale.value)]
    ELSE IF scale.type = "Int64"
    THEN [ok |-> TRUE, value |-> i64_as_f64(scale.value)]
    ELSE IF scale.type \in {"Undefined", "Null"}
    THEN [ok |-> TRUE, value |-> one]
    ELSE [ok |-> FALSE,
          error |-> documentdb_error("TypeMismatch", scale.type)]

stats_call(fn, scale) == [fn |-> fn, scale |-> scale]

\* process_coll_stats
process_coll_stats(req, backend_result) ==
    LET found == get(req.document, "scale")
        converted == IF is_some(found) THEN convert_to_scale(unwrap(found))
                     ELSE [ok |-> TRUE, value |-> one]
    IN  IF ~converted.ok
        THEN [response |-> converted.error, calls |-> <<>>]
        ELSE [response |-> backend_result,
              calls |-> <<stats_call("execute_coll_stats",
                                     converted.value)>>]

\* process_db_stats
process_db_stats(req, backend_result) ==
    LET found == get(req.document, "scale")
        converted == IF is_some(found) THEN convert_to_scale(unwrap(found))
                     ELSE [ok |-> TRUE, value |-> one]
    IN  IF ~converted.ok
        THEN [response |-> converted.error, calls |-> <<>>]
        ELSE [response |-> backend_result,
              calls |-> <<stats_call("execute_db_stats", converted.value)>>]

ProcessCollStats(req, backend_result) ==
    /\ pc = "serving"
    /\ request = None
    /\ LET r == process_coll_stats(req, backend_result)
       IN  /\ request' = Some(req)
           /\ response' = Some(r.response)
           /\ backend_calls' = r.calls
           /\ collaborator_calls' = <<>>
    /\ UNCHANGED <<lifecycle_vars, trace_vars, resolved, recorder_vars>>

ProcessDbStats(req, backend_result) ==
    /\ pc = "serving"
    /\ request = None
    /\ LET r == process_db_stats(req, backend_result)
       IN  /\ request' = Some(req)
           /\ response' = Some(r.response)
           /\ backend_calls' = r.calls
           /\ collaborator_calls' = <<>>
    /\ UNCHANGED <<lifecycle_vars, trace_vars, resolved, recorder_vars>>

----------------------------------------------------------------------------
(* processor/data_management.rs: count *)

\* what request_context.info.collection() returns
CollectionResults ==
    {[ok |-> TRUE, name |-> "coll"],
     documentdb_error("InvalidNamespace", "no collection"),
     documentdb_error("BadValue", "collection is not a string")}

ConnectionContexts == {"session1", "session2"}

CountRequests ==
    {[command |-> "count", collection |-> c, connection_context |-> cc] :
         c \in CollectionResults, cc \in ConnectionContexts}

count_call(connection_context) ==
    [fn |-> "execute_count_query", connection_context |-> connection_context]

\* variant: the collection is not resolved before the query
process_count_without_resolution(req, backend_result) ==
    [response |-> backend_result,
     calls |-> <<count_call(req.connection_context)>>]

\* process_count
process_count(req, backend_result) ==
    IF ~req.collection.ok
    THEN [response |-> req.collection, calls |-> <<>>]
    ELSE [response |-> backend_result,
          calls |-> <<count_call(req.connection_context)>>]

ProcessCount(req, backend_result) ==
    /\ pc = "serving"
    /\ request = None
    /\ LET r == process_count(req, backend_result)
       IN  /\ request' = Some(req)
           /\ response' = Some(r.response)
           /\ backend_calls' = r.calls
           /\ collaborator_calls' = <<>>
    /\ UNCHANGED <<lifecycle_vars, trace_vars, resolved, recorder_vars>>

----------------------------------------------------------------------------
(* processor/data_management.rs: find, aggregate and listCollections *)

RequestInfos == {"info1", "info2"}

CursorRequests(command) ==
    {[command |-> command, info |-> i, connection_context |-> cc] :
         i \in RequestInfos, cc \in ConnectionContexts}

\* what execute_find / execute_aggregate / execute_list_collections return:
\* Ok((response, conn)) or an error
CursorBackendResults ==
    {[ok |-> TRUE, response |-> r, conn |-> c] :
         r \in {"batch1", "batch2"}, c \in {"conn1", "conn2"}}
        \cup {Err("BackendError")}

\* what cursor::save_cursor returns
SaveResults == {Ok, Err("CursorError")}

cursor_backend_call(fn, connection_context, result) ==
    [fn |-> fn, connection_context |-> connection_context, result |-> result]

\* a call of cursor::save_cursor and what it returned
save_cursor(connection_context, conn, pg_response, info, result) ==
    [fn |-> "save_cursor", connection_context |-> connection_context,
     conn |-> conn, response |-> pg_response, info |-> info,
     result |-> result]

\* Response::Pg(response)
Pg(pg_response) == [ok |-> TRUE, kind |-> "Pg", response |-> pg_response]

\* variant: a failure of the cursor-save step is dropped
process_find_drops_save_error(req, backend_result, save_result) ==
    LET call == cursor_backend_call("execute_find", req.connection_context,
                                    backend_result)
    IN  IF ~backend_result.ok
        THEN [response |-> backend_result, calls |-> <<call>>,
              collaborator_calls |-> <<>>]
        ELSE [response |-> Pg(backend_result.response), calls |-> <<call>>,
              collaborator_calls |->
                  <<save_cursor(req.connection_context, backend_result.conn,
                                backend_result.response, req.info,
                                save_result)>>]

\* process_find
process_find(req, backend_result, save_result) ==
    LET call == cursor_backend_call("execute_find", req.connection_context,
                                    backend_result)
    IN  IF ~backend_result.ok
        THEN [response |-> backend_result, calls |-> <<call>>,
              collaborator_calls |-> <<>>]
        ELSE LET save == save_cursor(req.connection_context,
                                     backend_result.conn,
                                     backend_result.response, req.info,
                                     save_result)
             IN  IF ~save_result.ok
                 THEN [response |-> save_result, calls |-> <<call>>,
                       collaborator_calls |-> <<save>>]
                 ELSE [response |-> Pg(backend_result.response),
                       calls |-> <<call>>, collaborator_calls |-> <<save>>]

\* process_aggregate
process_aggregate(req, backend_result, save_result) ==
    LET call == cursor_backend_call("execute_aggregate",
                                    req.connection_context, backend_result)
    IN  IF ~backend_result.ok
        THEN [response |-> backend_result, calls |-> <<call>>,
              collaborator_calls |-> <<>>]
        ELSE LET save == save_cursor(req.connection_context,
                                     backend_result.conn,
                                     backend_result.response, req.info,
                                     save_result)
             IN  IF ~save_result.ok
                 THEN [response |-> save_result, calls |-> <<call>>,
                       collaborator_calls |-> <<save>>]
                 ELSE [response |-> Pg(backend_result.response),
                       calls |-> <<call>>, collaborator_calls |-> <<save>>]

\* process_list_collections
process_list_collections(req, backend_result, save_result) ==
    LET call == cursor_backend_call("execute_list_collections",
                                    req.connection_context, backend_result)
    IN  IF ~backend_result.ok
        THEN [response |-> backend_result, calls |-> <<call>>,
              collaborator_calls |-> <<>>]
        ELSE LET save == save_cursor(req.connection_context,
                                     backend_result.conn,
                                     backend_result.response, req.info,
                                     save_result)
             IN  IF ~save_result.ok
                 THEN [response |-> save_result, calls |-> <<call>>,
                       collaborator_calls |-> <<save>>]
                 ELSE [response |-> Pg(backend_result.response),
                       calls |-> <<call>>, collaborator_calls |-> <<save>>]

ProcessFind(req, backend_result, save_result) ==
    /\ pc = "serving"
    /\ request = None
    /\ LET r == process_find(req, backend_result, save_result)
       IN  /\ request' = Some(req)
           /\ response' = Some(r.response)
           /\ backend_calls' = r.calls
           /\ collaborator_calls' = r.collaborator_calls
    /\ UNCHANGED <<lifecycle_vars, trace_vars, resolved, recorder_vars>>

ProcessAggregate(req, backend_result, save_result) ==
    /\ pc = "serving"
    /\ request = None
    /\ LET r == process_aggregate(req, backend_result, save_result)
       IN  /\ request' = Some(req)
           /\ response' = Some(r.response)
           /\ backend_calls' = r.calls
           /\ collaborator_calls' = r.collaborator_calls
    /\ UNCHANGED <<lifecycle_vars, trace_vars, resolved, recorder_vars>>

ProcessListCollections(req, backend_result, save_result) ==
    /\ pc = "serving"
    /\ request = None
    /\ LET r == process_list_collections(req, backend_result, save_result)
       IN  /\ request' = Some(req)
           /\ response' = Some(r.response)
           /\ backend_calls' = r.calls
           /\ collaborator_calls' = r.collaborator_calls
    /\ UNCHANGED <<lifecycle_vars, trace_vars, resolved, recorder_vars>>

----------------------------------------------------------------------------
(* processor/data_management.rs: delete, insert and update *)

\* how many operations a write command carries
MaxRows == 2

ActivityIds == {"activity1", "activity2"}

WriteRequests(command) ==
    {[command |-> command, connection_context |-> cc, activity_id |-> id] :
         cc \in ConnectionContexts, id \in ActivityIds}

\* what execute_delete / execute_insert / execute_update return: Ok(rows),
\* one row per operation, "failed" marking a per-operation write error, or
\* an error of the call itself
WriteBackendResults ==
    {[ok |-> TRUE, rows |-> rows] :
         rows \in seqs_up_to({"done", "failed"}, MaxRows)}
        \cup {Err("BackendError")}

\* enable_write_procedures, enable_write_procedures_with_batch_commit,
\* enable_backend_timeout
WriteFlags == {<<FALSE, FALSE, FALSE>>, <<TRUE, FALSE, TRUE>>}

write_backend_call(fn, connection_context, flags, result) ==
    [fn |-> fn, connection_context |-> connection_context, flags |-> flags,
     result |-> result]

\* the positions of the failed operations, in order
RECURSIVE failed_operations(_, _)
failed_operations(rows, n) ==
    IF n > Len(rows) THEN <<>>
    ELSE (IF rows[n] = "failed" THEN <<n>> ELSE <<>>)
             \o failed_operations(rows, n + 1)

\* PgResponse::new(rows).transform_write_errors(connection_context,
\* activity_id): the response with the per-operation failures in its error
\* list, or an error of the transformation itself
transform_write_errors(rows, connection_context, activity_id, fails) ==
    IF fails THEN Err("InternalError")
    ELSE [ok |-> TRUE, kind |-> "Pg", rows |-> rows,
          write_errors |-> failed_operations(rows, 1),
          activity_id |-> activity_id]

\* a call of transform_write_errors and what it returned
transform_call(rows, connection_context, activity_id, result) ==
    [fn |-> "transform_write_errors", rows |-> rows,
     connection_context |-> connection_context,
     activity_id |-> activity_id, result |-> result]

\* variant: the rows are returned without the write-error transformation
process_delete_skips_transformation(req, read_only, backend_result, transform_fails) ==
    LET call == write_backend_call("execute_delete", req.connection_context,
                                   <<read_only>>, backend_result)
    IN  IF ~backend_result.ok
        THEN [response |-> backend_result, calls |-> <<call>>,
              collaborator_calls |-> <<>>]
        ELSE [response |-> [ok |-> TRUE, kind |-> "Pg",
                            rows |-> backend_result.rows,
                            write_errors |-> <<>>,
                            activity_id |-> req.activity_id],
              calls |-> <<call>>, collaborator_calls |-> <<>>]

\* process_delete
process_delete(req, read_only, backend_result, transform_fails) ==
    LET call == write_backend_call("execute_delete", req.connection_context,
                                   <<read_only>>, backend_result)
    IN  IF ~backend_result.ok
        THEN [response |-> backend_result, calls |-> <<call>>,
              collaborator_calls |-> <<>>]
        ELSE LET result == transform_write_errors(backend_result.rows,
                                                  req.connection_context,
                                                  req.activity_id,
                                                  transform_fails)
             IN  [response |-> result, calls |-> <<call>>,
                  collaborator_calls |->
                      <<transform_call(backend_result.rows,
                                       req.connection_context,
                                       req.activity_id, result)>>]

\* process_insert
process_insert(req, flags, backend_result, transform_fails) ==
    LET call == write_backend_call("execute_insert", req.connection_context,
                                   flags, backend_result)
    IN  IF ~backend_result.ok
        THEN [response |-> backend_result, calls |-> <<call>>,
              collaborator_calls |-> <<>>]
        ELSE LET result == transform_write_errors(backend_result.rows,
                                                  req.connection_context,
                                                  req.activity_id,
                                                  transform_fails)
             IN  [response |-> result, calls |-> <<call>>,
                  collaborator_calls |->
                      <<transform_call(backend_result.rows,
                                       req.connection_context,
                                       req.activity_id, result)>>]

\* process_update
process_update(req, flags, backend_result, transform_fails) ==
    LET call == write_backend_call("execute_update", req.connection_context,
                                   flags, backend_result)
    IN  IF ~backend_result.ok
        THEN [response |-> backend_result, calls |-> <<call>>,
              collaborator_calls |-> <<>>]
        ELSE LET result == transform_write_errors(backend_result.rows,
                                                  req.connection_context,
                                                  req.activity_id,
                                                  transform_fails)
             IN  [response |-> result, calls |-> <<call>>,
                  collaborator_calls |->
                      <<transform_call(backend_result.rows,
                                       req.connection_context,
                                       req.activity_id, result)>>]

\* read_only: what dynamic_config.is_read_only_for_disk_full() returned
ProcessDelete(req, read_only, backend_result, transform_fails) ==
    /\ pc = "serving"
    /\ request = None
    /\ LET r == process_delete(req, read_only, backend_result,
                               transform_fails)
       IN  /\ request' = Some(req)
           /\ response' = Some(r.response)
           /\ backend_calls' = r.calls
           /\ collaborator_calls' = r.collaborator_calls
    /\ UNCHANGED <<lifecycle_vars, trace_vars, resolved, recorder_vars>>

ProcessInsert(req, flags, backend_result, transform_fails) ==
    /\ pc = "serving"
    /\ request = None
    /\ LET r == process_insert(req, flags, backend_result, transform_fails)
       IN  /\ request' = Some(req)
           /\ response' = Some(r.response)
           /\ backend_calls' = r.calls
           /\ collaborator_calls' = r.collaborator_calls
    /\ UNCHANGED <<lifecycle_vars, trace_vars, resolved, recorder_vars>>

ProcessUpdate(req, flags, backend_result, transform_fails) ==
    /\ pc = "serving"
    /\ request = None
    /\ LET r == process_update(req, flags, backend_result, transform_fails)
       IN  /\ request' = Some(req)
           /\ response' = Some(r.response)
           /\ backend_calls' = r.calls
           /\ collaborator_calls' = r.collaborator_calls
    /\ UNCHANGED <<lifecycle_vars, trace_vars, resolved, recorder_vars>>

NextData ==
    \/ \E req \in StatsRequests("collStats"), b \in BackendResults :
           ProcessCollStats(req, b)
    \/ \E req \in StatsRequests("dbStats"), b \in BackendResults :
           ProcessDbStats(req, b)
    \/ \E req \in CountRequests, b \in BackendResults : ProcessCount(req, b)
    \/ \E req \in CursorRequests("find"), b \in CursorBackendResults,
          sv \in SaveResults : ProcessFind(req, b, sv)
    \/ \E req \in CursorRequests("aggregate"), b \in CursorBackendResults,
          sv \in SaveResults : ProcessAggregate(req, b, sv)
    \/ \E req \in CursorRequests("listCollections"),
          b \in CursorBackendResults, sv \in SaveResults :
           ProcessListCollections(req, b, sv)
    \/ \E req \in WriteRequests("delete"), ro \in BOOLEAN,
          b \in WriteBackendResults, tf \in BOOLEAN :
           ProcessDelete(req, ro, b, tf)
    \/ \E req \in WriteRequests("insert"), fl \in WriteFlags,
          b \in WriteBackendResults, tf \in BOOLEAN :
           ProcessInsert(req, fl, b, tf)
    \/ \E req \in WriteRequests("update"), fl \in WriteFlags,
          b \in WriteBackendResults, tf \in BOOLEAN :
           ProcessUpdate(req, fl, b, tf)
    \/ CompleteRequest

SpecData == InitCmd /\ [][NextData]_vars

----------------------------------------------------------------------------
(* Properties of collStats and dbStats *)

stats_backend_fn(command) ==
    IF command = "collStats" THEN "execute_coll_stats" ELSE "execute_db_stats"

\* the floating-point number with the value of an integer, if there is one
equal_f64(x) == f64(x.neg, x.a, x.b, x.c, FALSE)

\* |r - x| for two magnitudes, 2 * Limb standing for anything larger
abs_diff(r, x) ==
    IF r.a - x.a \notin {-1, 0, 1} THEN 2 * Limb
    ELSE LET D == (r.a - x.a) * Limb + (r.b - x.b)
         IN  IF D \notin {-1, 0, 1} THEN 2 * Limb
             ELSE LET diff == D * Limb + (r.c - x.c)
                  IN  IF diff < 0 THEN -diff ELSE diff

\* r is the f64 nearest to the integer x (ties to the even significand)
nearest_f64(r, x) ==
    LET d == bit_length(x.a) - 11
    IN  /\ r.neg = x.neg
        /\ ~r.half
        /\ IF d <= 0 THEN abs_diff(r, x) = 0
           ELSE /\ r.c % (2^d) = 0
                /\ \/ abs_diff(r, x) < 2^(d - 1)
                   \/ abs_diff(r, x) = 2^(d - 1) /\ (r.c \div (2^d)) % 2 = 0

\* the outcome both handlers have to produce: one backend call whose scale
\* is the expected one (`scale_ok`), or the TypeMismatch error (`is_error`)
stats_outcome(scale_ok, is_error) ==
    IF is_error
    THEN /\ backend_calls = <<>>
         /\ the_response
                = documentdb_error("TypeMismatch",
                                   unwrap(get(the_request.document,
                                              "scale")).type)
    ELSE /\ Len(backend_calls) = 1
         /\ backend_calls[1].fn = stats_backend_fn(the_request.command)
         /\ scale_ok
         /\ the_response \in BackendResults

is_stats_request ==
    is_some(request) /\ the_request.command \in {"collStats", "dbStats"}

\* the type of the first "scale" field of the request
scale_type ==
    IF is_some(get(the_request.document, "scale"))
    THEN unwrap(get(the_request.document, "scale")).type
    ELSE "absent"

scale_value == unwrap(get(the_request.document, "scale")).value

passed_scale == backend_calls[1].scale

NumericOrMissing ==
    {"absent", "Undefined", "Null", "Double", "Int32", "Int64"}

\* C13 (as claimed): collStats and dbStats pass a Double scale as it is, an
\* Int32 or Int64 scale as the equal floating-point value and 1.0 for an
\* absent, Undefined or Null scale; any other type fails with TypeMismatch
\* naming the type, without a backend call.
C13_ScaleIsTheEqualFloat ==
    is_stats_request =>
        stats_outcome(/\ Len(backend_calls) = 1
                      /\ IF scale_type \in {"absent", "Undefined", "Null"}
                         THEN passed_scale = one
                         ELSE IF scale_type = "Double"
                         THEN passed_scale = scale_value
                         ELSE passed_scale = equal_f64(scale_value),
                      scale_type \notin NumericOrMissing)

\* C13 (amended): as above, except that an Int64 scale is passed as the
\* floating-point value nearest to it, which is the equal value whenever the
\* magnitude does not exceed 2^53; the rule fixes one scale or one error per
\* document, so both handlers agree on every document.
C13_ScaleIsTheNearestFloat ==
    is_stats_request =>
        stats_outcome(/\ Len(backend_calls) = 1
                      /\ IF scale_type \in {"absent", "Undefined", "Null"}
                         THEN passed_scale = one
                         ELSE IF scale_type = "Double"
                         THEN passed_scale = scale_value
                         ELSE IF scale_type = "Int32"
                         THEN passed_scale = equal_f64(scale_value)
                         ELSE /\ nearest_f64(passed_scale, scale_value)
                              /\ bit_length(scale_value.a) <= 11 =>
                                     passed_scale = equal_f64(scale_value),
                      scale_type \notin NumericOrMissing)

C13_Witness ==
    /\ is_stats_request
    /\ the_request.command = "dbStats"
    /\ get(the_request.document, "scale")
           = Some(value_field("scale", "Int64", int(FALSE, 2^11, 0, 1)))
    /\ backend_calls = <<stats_call("execute_db_stats",
                                    f64(FALSE, 2^11, 0, 0, FALSE))>>

----------------------------------------------------------------------------
(* Properties of count and of the cursor commands *)

\* C14: count resolves the collection first: when the resolver fails, the
\* command fails with exactly the resolver's error and the backend count
\* query is not executed; the backend is called, once, only when the
\* resolution succeeded, and its result is then the response.
C14_CountResolvesCollectionFirst ==
    (is_some(request) /\ the_request.command = "count") =>
        IF the_request.collection.ok
        THEN /\ backend_calls
                    = <<count_call(the_request.connection_context)>>
             /\ the_response \in BackendResults
        ELSE /\ the_response = the_request.collection
             /\ backend_calls = <<>>

C14_Witness ==
    /\ is_some(request)
    /\ the_request.command = "count"
    /\ the_request.collection
           = documentdb_error("InvalidNamespace", "no collection")
    /\ the_response = documentdb_error("InvalidNamespace", "no collection")
    /\ backend_calls = <<>>

CursorCommands == {"find", "aggregate", "listCollections"}

cursor_backend_fn(command) ==
    IF command = "find" THEN "execute_find"
    ELSE IF command = "aggregate" THEN "execute_aggregate"
    ELSE "execute_list_collections"

\* C15: find, aggregate and listCollections call their backend query once;
\* the first batch is the response only if save_cursor was then invoked once
\* with the request's connection context, the connection and the response
\* that call returned and the request's info; save_cursor is not invoked
\* when the backend call failed (its error is the response), and the batch
\* is the response whenever both succeeded: a save_cursor failure is the
\* response instead of the batch.
C15_BatchReturnedAfterCursorSaved ==
    (is_some(request) /\ the_request.command \in CursorCommands) =>
        /\ Len(backend_calls) = 1
        /\ backend_calls[1].fn = cursor_backend_fn(the_request.command)
        /\ LET result == backend_calls[1].result
           IN  IF ~result.ok
               THEN collaborator_calls = <<>> /\ the_response = result
               ELSE /\ Len(collaborator_calls) = 1
                    /\ LET saved == collaborator_calls[1].result
                       IN  /\ saved \in SaveResults
                           /\ collaborator_calls[1]
                                  = save_cursor(
                                        the_request.connection_context,
                                        result.conn, result.response,
                                        the_request.info, saved)
                           /\ the_response = (IF saved.ok
                                              THEN Pg(result.response)
                                              ELSE saved)

C15_Witness ==
    /\ is_some(request)
    /\ the_request.command = "aggregate"
    /\ Len(backend_calls) = 1
    /\ backend_calls[1].result.ok
    /\ Len(collaborator_calls) = 1
    /\ collaborator_calls[1].conn = backend_calls[1].result.conn
    /\ ~collaborator_calls[1].result.ok
    /\ the_response = Err("CursorError")

----------------------------------------------------------------------------
(* Properties of the write commands *)

WriteCommands == {"delete", "insert", "update"}

write_backend_fn(command) ==
    IF command = "delete" THEN "execute_delete"
    ELSE IF command = "insert" THEN "execute_insert"
    ELSE "execute_update"

\* C16: delete, insert and update call their backend operation once; rows it
\* returns are passed exactly once to transform_write_errors, with the
\* request's connection context and activity id, and the handler returns
\* what the transformation returned: a response that lists every failed
\* operation of the rows, in order, unless the transformation itself fails.
\* An error of the backend call itself is returned as the command's error,
\* without a transformation.
C16_WriteErrorsAreTransformed ==
    (is_some(request) /\ the_request.command \in WriteCommands) =>
        /\ Len(backend_calls) = 1
        /\ backend_calls[1].fn = write_backend_fn(the_request.command)
        /\ LET result == backend_calls[1].result
           IN  IF ~result.ok
               THEN collaborator_calls = <<>> /\ the_response = result
               ELSE /\ Len(collaborator_calls) = 1
                    /\ LET t == collaborator_calls[1]
                       IN  /\ t.fn = "transform_write_errors"
                           /\ t.rows = result.rows
                           /\ t.connection_context
                                  = the_request.connection_context
                           /\ t.activity_id = the_request.activity_id
                           /\ the_response = t.result
                           /\ t.result.ok =>
                                  /\ Len(t.result.write_errors)
                                         = count_in(result.rows, "failed")
                                  /\ \A k \in 1..Len(t.result.write_errors) :
                                         result.rows[t.result.write_errors[k]]
                                             = "failed"

C16_Witness ==
    /\ is_some(request)
    /\ the_request.command = "update"
    /\ Len(backend_calls) = 1
    /\ backend_calls[1].result = [ok |-> TRUE, rows |-> <<"done", "failed">>]
    /\ Len(collaborator_calls) = 1
    /\ the_response.ok
    /\ the_response.write_errors = <<2>>
    /\ the_response.activity_id = the_request.activity_id

----------------------------------------------------------------------------
(* telemetry/context_propagation.rs.                                        *)
(*                                                                          *)
(* A string is the sequence of its characters.  A TraceId (u128) and a      *)
(* SpanId (u64) are the 32 and 16 lowercase hexadecimal digits they are     *)
(* displayed as; TraceFlags is a u8.                                        *)

HexChars == <<"0", "1", "2", "3", "4", "5", "6", "7", "8", "9", "a", "b",
              "c", "d", "e", "f">>

UpperHexChars == <<"A", "B", "C", "D", "E", "F">>

\* char::to_digit(16)
to_digit(c) ==
    IF \E i \in 1..16 : HexChars[i] = c
    THEN Some((CHOOSE i \in 1..16 : HexChars[i] = c) - 1)
    ELSE IF \E i \in 1..6 : UpperHexChars[i] = c
    THEN Some((CHOOSE i \in 1..6 : UpperHexChars[i] = c) + 9)
    ELSE None

zeros(n) == [i \in 1..n |-> "0"]

RECURSIVE strip_leading_zeros(_)
strip_leading_zeros(digits) ==
    IF digits # <<>> /\ Head(digits) = "0"
    THEN strip_leading_zeros(Tail(digits))
    ELSE digits

\* uN::from_str_radix(src, 16) for an unsigned integer of `width` hex
\* digits: an optional "+", then one or more digits of either case, the
\* value fitting the type; the value is given as its `width` digits
from_str_radix(src, width) ==
    LET digits == IF src # <<>> /\ Head(src) = "+" THEN Tail(src) ELSE src
        lower == [i \in 1..Len(digits) |->
                      IF is_some(to_digit(digits[i]))
                      THEN HexChars[unwrap(to_digit(digits[i])) + 1]
                      ELSE digits[i]]
        significant == strip_leading_zeros(lower)
    IN  IF digits = <<>>
             \/ \E i \in 1..Len(digits) : to_digit(digits[i]) = None
             \/ Len(significant) > width
        THEN [ok |-> FALSE, digits |-> <<>>]
        ELSE [ok |-> TRUE,
              digits |-> zeros(width - Len(significant)) \o significant]

\* TraceId::from_hex
TraceId_from_hex(hex) == from_str_radix(hex, 32)

\* SpanId::from_hex
SpanId_from_hex(hex) == from_str_radix(hex, 16)

\* u8::from_str_radix(src, 16)
u8_from_str_radix(src) ==
    LET parsed == from_str_radix(src, 2)
    IN  IF parsed.ok
        THEN [ok |-> TRUE,
              value |-> 16 * unwrap(to_digit(parsed.digits[1]))
                            + unwrap(to_digit(parsed.digits[2]))]
        ELSE [ok |-> FALSE, value |-> 0]

\* str::split('-')
RECURSIVE split(_, _)
split(text, part) ==
    IF text = <<>> THEN <<part>>
    ELSE IF Head(text) = "-" THEN <<part>> \o split(Tail(text), <<>>)
    ELSE split(Tail(text), Append(part, Head(text)))

TraceId_INVALID == zeros(32)

SpanId_INVALID == zeros(16)

\* SpanContext::new(trace_id, span_id, flags, is_remote, trace_state) in a
\* Context
span_context(trace_id, span_id, trace_flags, is_remote) ==
    [trace_id |-> trace_id, span_id |-> span_id,
     trace_flags |-> trace_flags, is_remote |-> is_remote]

\* parse_traceparent
parse_traceparent(traceparent) ==
    LET parts == split(traceparent, <<>>)
    IN  IF Len(parts) # 4 \/ parts[1] # <<"0", "0">> THEN None
        ELSE LET trace_id == TraceId_from_hex(parts[2])
                 span_id == SpanId_from_hex(parts[3])
                 flags == u8_from_str_radix(parts[4])
             IN  IF ~trace_id.ok \/ ~span_id.ok \/ ~flags.ok THEN None
                 ELSE IF trace_id.digits = TraceId_INVALID
                          \/ span_id.digits = SpanId_INVALID
                 THEN None
                 ELSE Some(span_context(trace_id.digits, span_id.digits,
                                        flags.value, TRUE))

\* extract_context_from_comment; comment.json is what serde_json::from_str
\* makes of the comment: None (not JSON) or Some([type, fields]), the fields
\* of an object being [key, type, str]
extract_context_from_comment(comment) ==
    IF comment.json = None THEN None
    ELSE LET json == unwrap(comment.json)
             found == IF json.type = "Object"
                      THEN get(json.fields, "traceparent") ELSE None
         IN  IF found = None THEN None
             ELSE IF unwrap(found).type # "String" THEN None
             ELSE parse_traceparent(unwrap(found).str)

CommentOpen == <<"/", "*", " ", "t", "r", "a", "c", "e", "p", "a", "r", "e",
                 "n", "t", "=", "'", "0", "0", "-">>

CommentClose == <<"'", " ", "*", "/", " ">>

\* format!("{:02x}", u8)
format_02x(n) == <<HexChars[(n \div 16) + 1], HexChars[(n % 16) + 1]>>

is_valid(sc) ==
    sc.trace_id # TraceId_INVALID /\ sc.span_id # SpanId_INVALID

is_sampled(sc) == sc.trace_flags % 2 = 1

Borrowed(text) == [cow |-> "Borrowed", text |-> text]

Owned(text) == [cow |-> "Owned", text |-> text]

\* variant: the sampled flag is not looked at
format_trace_comment_ignores_sampling(sql, context) ==
    IF is_valid(context)
    THEN Owned(CommentOpen \o context.trace_id \o <<"-">> \o context.span_id
                   \o <<"-">> \o format_02x(context.trace_flags)
                   \o CommentClose \o sql)
    ELSE Borrowed(sql)

\* format_trace_comment
format_trace_comment(sql, context) ==
    IF is_valid(context) /\ is_sampled(context)
    THEN Owned(CommentOpen \o context.trace_id \o <<"-">> \o context.span_id
                   \o <<"-">> \o format_02x(context.trace_flags)
                   \o CommentClose \o sql)
    ELSE Borrowed(sql)

TraceId1 == <<"4", "b", "f", "9", "2", "f", "3", "5", "7", "7", "b", "3",
              "4", "d", "a", "6", "a", "3", "c", "e", "9", "2", "9", "d",
              "0", "e", "0", "e", "4", "7", "3", "6">>

SpanId1 == <<"0", "0", "f", "0", "6", "7", "a", "a", "0", "b", "a", "9", "0",
             "2", "b", "7">>

Versions == {<<"0", "0">>, <<"0", "1">>}

TraceIdTexts ==
    {TraceId1,
     zeros(32),
     <<"4", "b", "f", "9">>,
     [i \in 1..32 |-> IF is_some(to_digit(TraceId1[i]))
                         /\ unwrap(to_digit(TraceId1[i])) > 9
                      THEN UpperHexChars[unwrap(to_digit(TraceId1[i])) - 9]
                      ELSE TraceId1[i]],
     <<"+">> \o Tail(TraceId1),
     <<"x", "y", "z">>,
     <<"1">> \o zeros(32)}

SpanIdTexts == {SpanId1, zeros(16), <<"f", "0", "6", "7">>, <<"g">>}

FlagsTexts ==
    {<<"0", "1">>, <<"0", "0">>, <<"1">>, <<"f", "f">>, <<"0", "b">>,
     <<"z", "z">>, <<"1", "0", "0">>}

join(a, b) == a \o <<"-">> \o b

TraceparentTexts ==
    {join(join(join(v, t), sp), f) :
         v \in Versions, t \in TraceIdTexts, sp \in SpanIdTexts,
         f \in FlagsTexts}
        \cup {join(join(<<"0", "0">>, TraceId1), SpanId1),
              join(join(join(join(<<"0", "0">>, TraceId1), SpanId1),
                        <<"0", "1">>), <<"0", "0">>),
              <<"i", "n", "v", "a", "l", "i", "d">>,
              <<>>}

json_field(key, type, str) == [key |-> key, type |-> type, str |-> str]

\* a comment, given by what serde_json::from_str makes of it
Comments ==
    {[json |-> None, text |-> t] : t \in {"", "not json"}}
        \cup {[json |-> Some([type |-> "Array", fields |-> <<>>]),
               text |-> "[1]"],
              [json |-> Some([type |-> "Object",
                              fields |-> <<json_field("other", "String",
                                                      <<"x">>)>>]),
               text |-> "{other}"],
              [json |-> Some([type |-> "Object",
                              fields |-> <<json_field("traceparent",
                                                      "Number", <<"7">>)>>]),
               text |-> "{traceparent: 7}"]}
        \cup {[json |-> Some([type |-> "Object",
                              fields |-> <<json_field("traceparent",
                                                      "String", tp)>>
                                             \o extra]),
               text |-> "{traceparent}"] :
                  tp \in TraceparentTexts,
                  extra \in {<<>>, <<json_field("other", "String",
                                                <<"x">>)>>}}

\* contexts the gateway builds itself; Context::current() without a span
\* carries the invalid span context
BuiltContexts ==
    {span_context(t, sp, f, r) :
         t \in {TraceId1, TraceId_INVALID}, sp \in {SpanId1, SpanId_INVALID},
         f \in {0, 1, 2, 3, 11, 255}, r \in {FALSE}}

Queries ==
    {<<"S", "E", "L", "E", "C", "T", " ", "1">>,
     <<"/", "*", " ", "c", " ", "*", "/", " ", "S", "E", "L", "E", "C", "T",
       " ", "1">>,
     <<>>}

ExtractContextFromComment(comment) ==
    /\ pc = "serving"
    /\ trace_comment = None
    /\ trace_context = None
    /\ trace_comment' = Some(comment)
    /\ trace_context' = extract_context_from_comment(comment)
    /\ UNCHANGED <<query, traced_sql>>
    /\ UNCHANGED <<lifecycle_vars, command_vars, resolved, recorder_vars>>

\* the gateway starts a span of its own
NewContext(context) ==
    /\ pc = "serving"
    /\ trace_comment = None
    /\ trace_context = None
    /\ trace_context' = Some(context)
    /\ UNCHANGED <<trace_comment, query, traced_sql>>
    /\ UNCHANGED <<lifecycle_vars, command_vars, resolved, recorder_vars>>

FormatTraceComment(sql) ==
    /\ pc = "serving"
    /\ is_some(trace_context)
    /\ traced_sql = None
    /\ query' = Some(sql)
    /\ traced_sql' = Some(format_trace_comment(sql, unwrap(trace_context)))
    /\ UNCHANGED <<trace_comment, trace_context>>
    /\ UNCHANGED <<lifecycle_vars, command_vars, resolved, recorder_vars>>

\* the request is over
TraceReset ==
    /\ pc = "serving"
    /\ is_some(trace_comment) \/ is_some(trace_context)
    /\ trace_comment' = None
    /\ trace_context' = None
    /\ query' = None
    /\ traced_sql' = None
    /\ UNCHANGED <<lifecycle_vars, command_vars, resolved, recorder_vars>>

NextTrace ==
    \/ \E comment \in Comments : ExtractContextFromComment(comment)
    \/ \E context \in BuiltContexts : NewContext(context)
    \/ \E sql \in Queries : FormatTraceComment(sql)
    \/ TraceReset

SpecTrace == InitCmd /\ [][NextTrace]_vars

----------------------------------------------------------------------------
(* Properties of the trace context transcoder *)

the_comment == unwrap(trace_comment)

the_context == unwrap(trace_context)

the_traced_sql == unwrap(traced_sql)

is_hex(c) == is_some(to_digit(c))

\* the text is "00-", 32 hex digits, "-", 16 hex digits, "-", 2 hex digits,
\* neither id being all zeros
well_formed_traceparent(tp) ==
    /\ Len(tp) = 55
    /\ tp[1] = "0" /\ tp[2] = "0"
    /\ tp[3] = "-" /\ tp[36] = "-" /\ tp[53] = "-"
    /\ \A i \in (4..35) \cup (37..52) \cup (54..55) : is_hex(tp[i])
    /\ \E i \in 4..35 : tp[i] # "0"
    /\ \E i \in 37..52 : tp[i] # "0"

\* the string value of the comment's traceparent field, if there is one
traceparent_of(comment) ==
    IF comment.json = None THEN None
    ELSE IF unwrap(comment.json).type # "Object" THEN None
    ELSE LET at == positions(unwrap(comment.json).fields, "traceparent")
         IN  IF at = {} THEN None
             ELSE LET f == unwrap(comment.json).fields[CHOOSE i \in at : TRUE]
                  IN  IF f.type = "String" THEN Some(f.str) ELSE None

\* C17 (as claimed): extract_context_from_comment returns a context iff the
\* comment is a JSON object whose traceparent field is a string of exactly
\* 4 dash-separated parts: "00", a 32-hex-digit trace-id, a 16-hex-digit
\* span-id, neither all-zero, and a 2-hex-digit flags value; for every other
\* comment it returns no context.
C17_ContextIffWellFormedTraceparent ==
    is_some(trace_comment) =>
        (is_some(trace_context)
            <=> /\ is_some(traceparent_of(the_comment))
                /\ well_formed_traceparent(unwrap(traceparent_of(the_comment))))

\* C18 (as claimed): when extraction succeeded on a traceparent string whose
\* flags mark it sampled, format_trace_comment embeds exactly that string:
\* the result is "/* traceparent='", the string, "' */ " and the query.
C18_ExtractThenFormatRoundTrips ==
    (is_some(trace_comment) /\ is_some(trace_context) /\ is_some(traced_sql)
         /\ is_sampled(the_context)) =>
        the_traced_sql.text
            = SubSeq(CommentOpen, 1, 16) \o unwrap(traceparent_of(the_comment))
                  \o CommentClose \o unwrap(query)

\* C19: format_trace_comment returns the query itself, borrowed, when the
\* context is invalid (an all-zero id) or not sampled (flags bit 0 clear);
\* otherwise it returns an owned string that is "/* traceparent='00-", the
\* trace id, "-", the span id, "-", the flags as two lowercase hex digits,
\* "' */ " and then the query, unchanged.
C19_FormatIsBorrowedOrExactPrefix ==
    is_some(traced_sql) =>
        LET sc == the_context
        IN  IF sc.trace_id = zeros(32) \/ sc.span_id = zeros(16)
                 \/ sc.trace_flags % 2 = 0
            THEN the_traced_sql = Borrowed(unwrap(query))
            ELSE /\ the_traced_sql.cow = "Owned"
                 /\ \E h \in 0..15, l \in 0..15 :
                        /\ sc.trace_flags = 16 * h + l
                        /\ the_traced_sql.text
                               = CommentOpen \o sc.trace_id \o <<"-">>
                                     \o sc.span_id \o <<"-">>
                                     \o <<HexChars[h + 1], HexChars[l + 1]>>
                                     \o CommentClose \o unwrap(query)

C19_Witness ==
    /\ is_some(traced_sql)
    /\ trace_comment = None
    /\ the_context = span_context(TraceId1, SpanId1, 11, FALSE)
    /\ Len(unwrap(query)) > 0
    /\ Head(unwrap(query)) = "/"
    /\ the_traced_sql.cow = "Owned"
    /\ SubSeq(the_traced_sql.text, 70, 76)
           = <<"0", "b", "'", " ", "*", "/", " ">>
    /\ SubSeq(the_traced_sql.text, 77, Len(the_traced_sql.text))
           = unwrap(query)

----------------------------------------------------------------------------
(* telemetry/config.rs, tracing.rs, metrics.rs, logging.rs: resolution of   *)
(* every option.  Texts parsed as numbers are sequences of characters;      *)
(* an f64 is a number of tenths, or NaN.                                    *)

DEFAULT_OTLP_ENDPOINT == "http://localhost:4317"

DEFAULT_EXPORT_TIMEOUT_MS == 10000

DEFAULT_SERVICE_NAME == "CARGO_CRATE_NAME"

DEFAULT_SERVICE_VERSION == "CARGO_PKG_VERSION"

tenths(n) == [nan |-> FALSE, tenths |-> n]

f64_NAN == [nan |-> TRUE, tenths |-> 0]

DEFAULT_SAMPLING_RATIO == tenths(1)

DEFAULT_EXPORT_INTERVAL_MS == 5000

DEFAULT_MAX_EXPORT_BATCH_SIZE == 512

DEFAULT_COLLECTION_INTERVAL_MS == 15000

DEFAULT_MAX_QUEUE_SIZE == 4096

DEFAULT_LOG_MAX_EXPORT_BATCH_SIZE == 256

DEFAULT_LOG_EXPORT_INTERVAL_MS == 5000

DEFAULT_LOG_LEVEL == "info"

Digits == {"0", "1", "2", "3", "4", "5", "6", "7", "8", "9"}

\* the value of a sequence of decimal digits
RECURSIVE decimal(_)
decimal(digits) ==
    IF digits = <<>> THEN 0
    ELSE 10 * decimal(SubSeq(digits, 1, Len(digits) - 1))
             + unwrap(to_digit(digits[Len(digits)]))

\* <u64 as FromStr>::from_str: an optional "+", then one decimal digit or
\* more; more than 20 digits overflow
parse_u64(src) ==
    LET digits == IF src # <<>> /\ Head(src) = "+" THEN Tail(src) ELSE src
    IN  IF digits = <<>> \/ Len(digits) > 20 THEN None
        ELSE IF \A i \in 1..Len(digits) : digits[i] \in Digits
             THEN Some(decimal(digits))
             ELSE None

\* <f64 as FromStr>::from_str on "NaN" and on decimal texts with at most
\* one fractional digit: an optional sign, digits, an optional "." and
\* digit, with a digit on one side of the "." at least
parse_f64(src) ==
    LET signed == src # <<>> /\ Head(src) \in {"+", "-"}
        body == IF signed THEN Tail(src) ELSE src
        dot == index_of(body, ".")
        whole == IF dot = 0 THEN body ELSE SubSeq(body, 1, dot - 1)
        fraction == IF dot = 0 THEN <<>>
                    ELSE SubSeq(body, dot + 1, Len(body))
        magnitude == 10 * decimal(whole) + decimal(fraction)
    IN  IF body \in {<<"N", "a", "N">>, <<"n", "a", "n">>} THEN Some(f64_NAN)
        ELSE IF /\ Len(whole) + Len(fraction) > 0
                /\ Len(fraction) <= 1
                /\ \A i \in 1..Len(whole) : whole[i] \in Digits
                /\ \A i \in 1..Len(fraction) : fraction[i] \in Digits
             THEN Some(tenths(IF signed /\ Head(src) = "-"
                              THEN 0 - magnitude ELSE magnitude))
             ELSE None

env_var_u64_unparsable_is_zero(var) ==
    IF is_some(env[var]) THEN Some(unwrap_or(parse_u64(unwrap(env[var])), 0))
    ELSE None

\* env_var::<u64> and env_var::<usize>
env_var_u64(var) ==
    IF is_some(env[var]) THEN parse_u64(unwrap(env[var])) ELSE None

\* env_var::<f64>
env_var_f64(var) ==
    IF is_some(env[var]) THEN parse_f64(unwrap(env[var])) ELSE None

\* env_var::<String>: <String as FromStr>::from_str never fails
env_var_String(var) ==
    IF is_some(env[var]) THEN Some(unwrap(env[var])) ELSE None

\* f64::clamp(0.0, 1.0): NaN stays NaN
clamp(x) ==
    IF x.nan THEN x
    ELSE IF x.tenths < 0 THEN tenths(0)
    ELSE IF x.tenths > 10 THEN tenths(10)
    ELSE x

service_name(c) ==
    unwrap_or(or_else(c.service_name, env_var_String("OTEL_SERVICE_NAME")),
              DEFAULT_SERVICE_NAME)

service_version(c) ==
    unwrap_or(or_else(c.service_version,
                      env_var_String("OTEL_SERVICE_VERSION")),
              DEFAULT_SERVICE_VERSION)

tracing_otlp_endpoint(c) ==
    unwrap_or(
        or_else(or_else(c.otlp_endpoint,
                        env_var_String("OTEL_EXPORTER_OTLP_TRACES_ENDPOINT")),
                env_var_String("OTEL_EXPORTER_OTLP_ENDPOINT")),
        DEFAULT_OTLP_ENDPOINT)

sampling_ratio(c) ==
    clamp(unwrap_or(or_else(c.sampling_ratio,
                            env_var_f64("OTEL_TRACES_SAMPLER_ARG")),
                    DEFAULT_SAMPLING_RATIO))

tracing_export_interval_ms(c) ==
    unwrap_or(or_else(c.export_interval_ms,
                      env_var_u64("OTEL_BSP_SCHEDULE_DELAY")),
              DEFAULT_EXPORT_INTERVAL_MS)

tracing_max_export_batch_size(c) ==
    unwrap_or(or_else(c.max_export_batch_size,
                      env_var_u64("OTEL_BSP_MAX_EXPORT_BATCH_SIZE")),
              DEFAULT_MAX_EXPORT_BATCH_SIZE)

tracing_export_timeout_generic_first(c) ==
    unwrap_or(
        or_else(or_else(c.export_timeout_ms,
                        env_var_u64("OTEL_EXPORTER_OTLP_TIMEOUT")),
                env_var_u64("OTEL_EXPORTER_OTLP_TRACES_TIMEOUT")),
        DEFAULT_EXPORT_TIMEOUT_MS)

tracing_export_timeout_ms(c) ==
    unwrap_or(
        or_else(or_else(c.export_timeout_ms,
                        env_var_u64("OTEL_EXPORTER_OTLP_TRACES_TIMEOUT")),
                env_var_u64("OTEL_EXPORTER_OTLP_TIMEOUT")),
        DEFAULT_EXPORT_TIMEOUT_MS)

metrics_otlp_endpoint(c) ==
    unwrap_or(
        or_else(or_else(c.otlp_endpoint,
                        env_var_String("OTEL_EXPORTER_OTLP_METRICS_ENDPOINT")),
                env_var_String("OTEL_EXPORTER_OTLP_ENDPOINT")),
        DEFAULT_OTLP_ENDPOINT)

metrics_export_interval_ms(c) ==
    unwrap_or(or_else(c.export_interval_ms,
                      env_var_u64("OTEL_METRIC_EXPORT_INTERVAL")),
              DEFAULT_COLLECTION_INTERVAL_MS)

metrics_export_timeout_ms(c) ==
    unwrap_or(
        or_else(or_else(c.export_timeout_ms,
                        env_var_u64("OTEL_EXPORTER_OTLP_METRICS_TIMEOUT")),
                env_var_u64("OTEL_EXPORTER_OTLP_TIMEOUT")),
        DEFAULT_EXPORT_TIMEOUT_MS)

logging_otlp_endpoint(c) ==
    unwrap_or(
        or_else(or_else(c.otlp_endpoint,
                        env_var_String("OTEL_EXPORTER_OTLP_LOGS_ENDPOINT")),
                env_var_String("OTEL_EXPORTER_OTLP_ENDPOINT")),
        DEFAULT_OTLP_ENDPOINT)

level(c) ==
    unwrap_or(or_else(c.level, env_var_String("RUST_LOG")),
              DEFAULT_LOG_LEVEL)

max_queue_size(c) ==
    unwrap_or(or_else(c.max_queue_size,
                      env_var_u64("OTEL_BLRP_MAX_QUEUE_SIZE")),
              DEFAULT_MAX_QUEUE_SIZE)

logging_max_export_batch_size(c) ==
    unwrap_or(or_else(c.max_export_batch_size,
                      env_var_u64("OTEL_BLRP_MAX_EXPORT_BATCH_SIZE")),
              DEFAULT_LOG_MAX_EXPORT_BATCH_SIZE)

logging_export_interval_ms(c) ==
    unwrap_or(or_else(c.export_interval_ms,
                      env_var_u64("OTEL_BLRP_SCHEDULE_DELAY")),
              DEFAULT_LOG_EXPORT_INTERVAL_MS)

logging_export_timeout_ms(c) ==
    unwrap_or(
        or_else(or_else(c.export_timeout_ms,
                        env_var_u64("OTEL_EXPORTER_OTLP_LOGS_TIMEOUT")),
                env_var_u64("OTEL_EXPORTER_OTLP_TIMEOUT")),
        DEFAULT_EXPORT_TIMEOUT_MS)

\* TelemetryConfig::new, TracingConfig::new, MetricsConfig::new and
\* LoggingConfig::new: the explicit values are copied field by field;
\* `json` maps the path of an option in TelemetryOptions to its value
TelemetryConfig_new(json) ==
    [service_name |-> json["ServiceName"],
     service_version |-> json["ServiceVersion"],
     tracing |-> [enabled |-> json["Tracing.Enabled"],
                  otlp_endpoint |-> json["Tracing.OtlpEndpoint"],
                  sampling_ratio |-> json["Tracing.SamplingRatio"],
                  export_interval_ms |-> json["Tracing.ExportIntervalMs"],
                  max_export_batch_size
                      |-> json["Tracing.MaxExportBatchSize"],
                  export_timeout_ms |-> json["Tracing.ExportTimeoutMs"]],
     metrics |-> [enabled |-> json["Metrics.Enabled"],
                  otlp_endpoint |-> json["Metrics.OtlpEndpoint"],
                  export_interval_ms |-> json["Metrics.ExportIntervalMs"],
                  export_timeout_ms |-> json["Metrics.ExportTimeoutMs"]],
     logging |-> [enabled |-> json["Logging.Enabled"],
                  otlp_endpoint |-> json["Logging.OtlpEndpoint"],
                  level |-> json["Logging.Level"],
                  console_enabled |-> json["Logging.ConsoleEnabled"],
                  max_queue_size |-> json["Logging.MaxQueueSize"],
                  max_export_batch_size
                      |-> json["Logging.MaxExportBatchSize"],
                  export_interval_ms |-> json["Logging.ExportIntervalMs"],
                  export_timeout_ms |-> json["Logging.ExportTimeoutMs"]]]

\* the type of every option of TelemetryOptions
OptionTypes ==
    [ServiceName |-> "String", ServiceVersion |-> "String"]
    @@ ("Tracing.Enabled" :> "bool" @@ "Tracing.OtlpEndpoint" :> "String"
        @@ "Tracing.SamplingRatio" :> "f64"
        @@ "Tracing.ExportIntervalMs" :> "u64"
        @@ "Tracing.MaxExportBatchSize" :> "u64"
        @@ "Tracing.ExportTimeoutMs" :> "u64")
    @@ ("Metrics.Enabled" :> "bool" @@ "Metrics.OtlpEndpoint" :> "String"
        @@ "Metrics.ExportIntervalMs" :> "u64"
        @@ "Metrics.ExportTimeoutMs" :> "u64")
    @@ ("Logging.Enabled" :> "bool" @@ "Logging.OtlpEndpoint" :> "String"
        @@ "Logging.Level" :> "String" @@ "Logging.ConsoleEnabled" :> "bool"
        @@ "Logging.MaxQueueSize" :> "u64"
        @@ "Logging.MaxExportBatchSize" :> "u64"
        @@ "Logging.ExportIntervalMs" :> "u64"
        @@ "Logging.ExportTimeoutMs" :> "u64")

\* the type each environment variable is parsed as
EnvTypes ==
    [OTEL_SERVICE_NAME |-> "String", OTEL_SERVICE_VERSION |-> "String",
     OTEL_TRACING_ENABLED |-> "bool",
     OTEL_EXPORTER_OTLP_TRACES_ENDPOINT |-> "String",
     OTEL_EXPORTER_OTLP_ENDPOINT |-> "String",
     OTEL_TRACES_SAMPLER_ARG |-> "f64",
     OTEL_BSP_SCHEDULE_DELAY |-> "u64",
     OTEL_BSP_MAX_EXPORT_BATCH_SIZE |-> "u64",
     OTEL_EXPORTER_OTLP_TRACES_TIMEOUT |-> "u64",
     OTEL_EXPORTER_OTLP_TIMEOUT |-> "u64",
     OTEL_METRICS_ENABLED |-> "bool",
     OTEL_EXPORTER_OTLP_METRICS_ENDPOINT |-> "String",
     OTEL_METRIC_EXPORT_INTERVAL |-> "u64",
     OTEL_EXPORTER_OTLP_METRICS_TIMEOUT |-> "u64",
     OTEL_LOGGING_ENABLED |-> "bool",
     OTEL_EXPORTER_OTLP_LOGS_ENDPOINT |-> "String",
     RUST_LOG |-> "String",
     OTEL_LOGS_CONSOLE_ENABLED |-> "bool",
     OTEL_BLRP_MAX_QUEUE_SIZE |-> "u64",
     OTEL_BLRP_MAX_EXPORT_BATCH_SIZE |-> "u64",
     OTEL_BLRP_SCHEDULE_DELAY |-> "u64",
     OTEL_EXPORTER_OTLP_LOGS_TIMEOUT |-> "u64"]

\* explicit values drawn for an option of each type
JsonValues(type) ==
    CASE type = "bool" -> {TRUE, FALSE}
      [] type = "String" -> {"json-value"}
      [] type = "u64" -> {3000}
      [] type = "f64" -> {tenths(8), tenths(20), tenths(0 - 5)}

\* texts drawn for an environment variable: one that parses as its type
\* and, where the type has them, texts that do not; the generic variables
\* get texts of their own
EnvTexts(var) ==
    CASE var = "OTEL_EXPORTER_OTLP_ENDPOINT" -> {"generic-value"}
      [] var = "OTEL_EXPORTER_OTLP_TIMEOUT"
             -> {<<"+", "9", "0", "0", "0">>, <<"9", "s">>}
      [] OTHER ->
             CASE EnvTypes[var] = "bool" -> {"true", "false", "1"}
               [] EnvTypes[var] = "String" -> {"env-value"}
               [] EnvTypes[var] = "u64"
                      -> {<<"7", "0", "0", "0">>, <<"a", "b", "c">>}
               [] EnvTypes[var] = "f64"
                      -> {<<"0", ".", "5">>, <<"2", ".", "0">>,
                          <<"N", "a", "N">>, <<"a", "b", "c">>}

\* how many environment variables are set when the options are resolved
MaxConfigEnvSet == 2

RECURSIVE EnvSettings(_, _)
EnvSettings(names, n) ==
    IF n = 0 \/ names = {} THEN {[v \in DOMAIN EnvTypes |-> None]}
    ELSE LET name == CHOOSE v \in names : TRUE
             rest == EnvSettings(names \ {name}, n)
             fewer == EnvSettings(names \ {name}, n - 1)
         IN  rest \cup {[e EXCEPT ![name] = Some(text)] :
                            e \in fewer, text \in EnvTexts(name)}

ConfigEnvChoices == EnvSettings(DOMAIN EnvTypes, MaxConfigEnvSet)

no_options == [o \in DOMAIN OptionTypes |-> None]

\* no option given, one option given, or every option given
JsonChoices ==
    {no_options}
    \cup UNION {{[no_options EXCEPT ![o] = Some(v)] :
                     v \in JsonValues(OptionTypes[o])} :
                 o \in DOMAIN OptionTypes}
    \cup {[o \in DOMAIN OptionTypes |->
               Some(CHOOSE v \in JsonValues(OptionTypes[o]) : TRUE)]}

InitConfig ==
    /\ env \in ConfigEnvChoices
    /\ config \in {TelemetryConfig_new(json) : json \in JsonChoices}
    /\ pc = "start"
    /\ telemetry_manager = None
    /\ telemetry_initialized = FALSE
    /\ init_result = None
    /\ subscriber = None
    /\ global_tracer = FALSE
    /\ global_meter = FALSE
    /\ TRACING_ENABLED = FALSE
    /\ provider_state = no_providers
    /\ worker_guard = "none"
    /\ gateway_telemetry = None
    /\ shutdown_token = FALSE
    /\ shutdown_self = None
    /\ shutdown_result = None
    /\ warnings = <<>>
    /\ events = <<>>
    /\ request = None
    /\ response = None
    /\ backend_calls = <<>>
    /\ collaborator_calls = <<>>
    /\ trace_comment = None
    /\ trace_context = None
    /\ query = None
    /\ traced_sql = None
    /\ resolved = None
    /\ status_code = None
    /\ measurements = <<>>
    /\ emitters = <<>>
    /\ layering = no_layers

\* every accessor of the configuration is called once
ResolveOptions ==
    /\ resolved = None
    /\ resolved' = Some(
           [service_name |-> service_name(config),
            service_version |-> service_version(config),
            tracing |->
                [enabled |-> tracing_enabled(config.tracing),
                 otlp_endpoint |-> tracing_otlp_endpoint(config.tracing),
                 sampling_ratio |-> sampling_ratio(config.tracing),
                 export_interval_ms
                     |-> tracing_export_interval_ms(config.tracing),
                 max_export_batch_size
                     |-> tracing_max_export_batch_size(config.tracing),
                 export_timeout_ms
                     |-> tracing_export_timeout_ms(config.tracing)],
            metrics |->
                [enabled |-> metrics_enabled(config.metrics),
                 otlp_endpoint |-> metrics_otlp_endpoint(config.metrics),
                 export_interval_ms
                     |-> metrics_export_interval_ms(config.metrics),
                 export_timeout_ms
                     |-> metrics_export_timeout_ms(config.metrics)],
            logging |->
                [enabled |-> logging_enabled(config.logging),
                 otlp_endpoint |-> logging_otlp_endpoint(config.logging),
                 level |-> level(config.logging),
                 console_enabled |-> console_enabled(config.logging),
                 max_queue_size |-> max_queue_size(config.logging),
                 max_export_batch_size
                     |-> logging_max_export_batch_size(config.logging),
                 export_interval_ms
                     |-> logging_export_interval_ms(config.logging),
                 export_timeout_ms
                     |-> logging_export_timeout_ms(config.logging)]])
    /\ UNCHANGED <<lifecycle_vars, command_vars, trace_vars, recorder_vars>>

NextConfig == ResolveOptions

SpecConfig == InitConfig /\ [][NextConfig]_vars

----------------------------------------------------------------------------
(* Properties of the configuration resolver *)

the_resolved == unwrap(resolved)

\* what env_var::<T> returns for a variable read as an option of a type
env_value(type, var) ==
    CASE type = "bool" -> env_var(var)
      [] type = "String" -> env_var_String(var)
      [] type = "u64" -> env_var_u64(var)
      [] type = "f64" -> env_var_f64(var)

resolved_option(explicit, variables, type, default, value) ==
    [explicit |-> explicit, variables |-> variables, type |-> type,
     default |-> default, resolved |-> value]

\* every resolvable option: its explicit value, its environment variables
\* in the order of the fallback chain, its type, its compiled default and
\* the value its accessor resolved to
resolved_options ==
    LET c == config
        r == the_resolved
        generic_endpoint == "OTEL_EXPORTER_OTLP_ENDPOINT"
        generic_timeout == "OTEL_EXPORTER_OTLP_TIMEOUT"
    IN  << resolved_option(c.service_name, <<"OTEL_SERVICE_NAME">>, "String",
                  "CARGO_CRATE_NAME", r.service_name),
           resolved_option(c.service_version, <<"OTEL_SERVICE_VERSION">>, "String",
                  "CARGO_PKG_VERSION", r.service_version),
           resolved_option(c.tracing.enabled, <<"OTEL_TRACING_ENABLED">>, "bool",
                  FALSE, r.tracing.enabled),
           resolved_option(c.tracing.otlp_endpoint,
                  <<"OTEL_EXPORTER_OTLP_TRACES_ENDPOINT", generic_endpoint>>,
                  "String", "http://localhost:4317",
                  r.tracing.otlp_endpoint),
           resolved_option(c.tracing.sampling_ratio, <<"OTEL_TRACES_SAMPLER_ARG">>,
                  "f64", tenths(1), r.tracing.sampling_ratio),
           resolved_option(c.tracing.export_interval_ms,
                  <<"OTEL_BSP_SCHEDULE_DELAY">>, "u64", 5000,
                  r.tracing.export_interval_ms),
           resolved_option(c.tracing.max_export_batch_size,
                  <<"OTEL_BSP_MAX_EXPORT_BATCH_SIZE">>, "u64", 512,
                  r.tracing.max_export_batch_size),
           resolved_option(c.tracing.export_timeout_ms,
                  <<"OTEL_EXPORTER_OTLP_TRACES_TIMEOUT", generic_timeout>>,
                  "u64", 10000, r.tracing.export_timeout_ms),
           resolved_option(c.metrics.enabled, <<"OTEL_METRICS_ENABLED">>, "bool",
                  TRUE, r.metrics.enabled),
           resolved_option(c.metrics.otlp_endpoint,
                  <<"OTEL_EXPORTER_OTLP_METRICS_ENDPOINT", generic_endpoint>>,
                  "String", "http://localhost:4317",
                  r.metrics.otlp_endpoint),
           resolved_option(c.metrics.export_interval_ms,
                  <<"OTEL_METRIC_EXPORT_INTERVAL">>, "u64", 15000,
                  r.metrics.export_interval_ms),
           resolved_option(c.metrics.export_timeout_ms,
                  <<"OTEL_EXPORTER_OTLP_METRICS_TIMEOUT", generic_timeout>>,
                  "u64", 10000, r.metrics.export_timeout_ms),
           resolved_option(c.logging.enabled, <<"OTEL_LOGGING_ENABLED">>, "bool",
                  TRUE, r.logging.enabled),
           resolved_option(c.logging.otlp_endpoint,
                  <<"OTEL_EXPORTER_OTLP_LOGS_ENDPOINT", generic_endpoint>>,
                  "String", "http://localhost:4317",
                  r.logging.otlp_endpoint),
           resolved_option(c.logging.level, <<"RUST_LOG">>, "String", "info",
                  r.logging.level),
           resolved_option(c.logging.console_enabled,
                  <<"OTEL_LOGS_CONSOLE_ENABLED">>, "bool", FALSE,
                  r.logging.console_enabled),
           resolved_option(c.logging.max_queue_size, <<"OTEL_BLRP_MAX_QUEUE_SIZE">>,
                  "u64", 4096, r.logging.max_queue_size),
           resolved_option(c.logging.max_export_batch_size,
                  <<"OTEL_BLRP_MAX_EXPORT_BATCH_SIZE">>, "u64", 256,
                  r.logging.max_export_batch_size),
           resolved_option(c.logging.export_interval_ms,
                  <<"OTEL_BLRP_SCHEDULE_DELAY">>, "u64", 5000,
                  r.logging.export_interval_ms),
           resolved_option(c.logging.export_timeout_ms,
                  <<"OTEL_EXPORTER_OTLP_LOGS_TIMEOUT", generic_timeout>>,
                  "u64", 10000, r.logging.export_timeout_ms) >>

\* the first of an option's variables that is set, 0 when none is
first_set(o) ==
    IF \E i \in 1..Len(o.variables) : is_some(env[o.variables[i]])
    THEN CHOOSE i \in 1..Len(o.variables) :
             /\ is_some(env[o.variables[i]])
             /\ \A j \in 1..(i - 1) : ~is_some(env[o.variables[j]])
    ELSE 0

\* the first of an option's variables that is set to a text of the
\* option's type, 0 when none is
first_parsable(o) ==
    IF \E i \in 1..Len(o.variables) :
           is_some(env_value(o.type, o.variables[i]))
    THEN CHOOSE i \in 1..Len(o.variables) :
             /\ is_some(env_value(o.type, o.variables[i]))
             /\ \A j \in 1..(i - 1) :
                    ~is_some(env_value(o.type, o.variables[j]))
    ELSE 0

\* the value is the explicit one, else that of the first variable that is
\* set, else the default
resolved_as_stated(o) ==
    IF is_some(o.explicit) THEN o.resolved = unwrap(o.explicit)
    ELSE IF first_set(o) # 0
    THEN LET value == env_value(o.type, o.variables[first_set(o)])
         IN  is_some(value) /\ o.resolved = unwrap(value)
    ELSE o.resolved = o.default

\* x brought into [0.0, 1.0]; NaN stays NaN
within_unit(x) ==
    IF x.nan THEN x
    ELSE tenths(IF x.tenths < 0 THEN 0
                ELSE IF x.tenths > 10 THEN 10 ELSE x.tenths)

\* the value is the explicit one, else that of the first variable set to
\* a text that parses, else the default; a sampling ratio is then clamped
resolved_by_chain(o) ==
    LET source ==
            IF is_some(o.explicit) THEN unwrap(o.explicit)
            ELSE IF first_parsable(o) # 0
            THEN unwrap(env_value(o.type, o.variables[first_parsable(o)]))
            ELSE o.default
    IN  o.resolved = IF o.type = "f64" THEN within_unit(source) ELSE source

\* C20 as stated: every option resolves to its explicit value when one is
\* given, else to the value of its environment variable when that is set
\* (the signal-specific variable before the generic one), else to the
\* compiled default.
C20_ExplicitThenEnvironmentThenDefault ==
    is_some(resolved) =>
        \A i \in 1..Len(resolved_options) :
            resolved_as_stated(resolved_options[i])

\* C20 amended: every option resolves to its explicit value when one is
\* given, else to the value of the first of its environment variables
\* (signal-specific before generic) that is set to a text parsing as the
\* option's type, else to the compiled default; the sampling ratio so
\* obtained is then clamped to [0.0, 1.0].
C20_ExplicitThenParsableEnvironmentThenDefault ==
    is_some(resolved) =>
        \A i \in 1..Len(resolved_options) :
            resolved_by_chain(resolved_options[i])

\* an explicit ratio of 2.0 resolved to 1.0 while the tracing timeout came
\* from the signal-specific variable although the generic one is set too
C20_Witness ==
    /\ is_some(resolved)
    /\ config.tracing.sampling_ratio = Some(tenths(20))
    /\ the_resolved.tracing.sampling_ratio = tenths(10)
    /\ config.tracing.export_timeout_ms = None
    /\ env["OTEL_EXPORTER_OTLP_TRACES_TIMEOUT"] = Some(<<"7", "0", "0", "0">>)
    /\ env["OTEL_EXPORTER_OTLP_TIMEOUT"]
           = Some(<<"+", "9", "0", "0", "0">>)
    /\ the_resolved.tracing.export_timeout_ms = 7000

\* the value the sampling ratio has before it is clamped: the explicit
\* one, else the parsed OTEL_TRACES_SAMPLER_ARG, else the default
sampling_ratio_source ==
    IF is_some(config.tracing.sampling_ratio)
    THEN unwrap(config.tracing.sampling_ratio)
    ELSE IF is_some(env_value("f64", "OTEL_TRACES_SAMPLER_ARG"))
    THEN unwrap(env_value("f64", "OTEL_TRACES_SAMPLER_ARG"))
    ELSE tenths(1)

\* C21: the resolved sampling ratio lies in [0.0, 1.0] whatever its source:
\* a value above 1 resolves to 1.0, one below 0 to 0.0 and one inside the
\* range to itself.
C21_SamplingRatioWithinUnitInterval ==
    is_some(resolved) =>
        LET ratio == the_resolved.tracing.sampling_ratio
            source == sampling_ratio_source
        IN  /\ ~ratio.nan
            /\ 0 <= ratio.tenths /\ ratio.tenths <= 10
            /\ ~source.nan =>
                   ratio.tenths = IF source.tenths > 10 THEN 10
                                  ELSE IF source.tenths < 0 THEN 0
                                  ELSE source.tenths

\* what every accessor returns when nothing is configured
documented_defaults ==
    [service_name |-> "CARGO_CRATE_NAME",
     service_version |-> "CARGO_PKG_VERSION",
     tracing |-> [enabled |-> FALSE,
                  otlp_endpoint |-> "http://localhost:4317",
                  sampling_ratio |-> tenths(1),
                  export_interval_ms |-> 5000,
                  max_export_batch_size |-> 512,
                  export_timeout_ms |-> 10000],
     metrics |-> [enabled |-> TRUE,
                  otlp_endpoint |-> "http://localhost:4317",
                  export_interval_ms |-> 15000,
                  export_timeout_ms |-> 10000],
     logging |-> [enabled |-> TRUE,
                  otlp_endpoint |-> "http://localhost:4317",
                  level |-> "info",
                  console_enabled |-> FALSE,
                  max_queue_size |-> 4096,
                  max_export_batch_size |-> 256,
                  export_interval_ms |-> 5000,
                  export_timeout_ms |-> 10000]]

\* no option is given explicitly
nothing_explicit ==
    \A i \in 1..Len(resolved_options) :
        ~is_some(resolved_options[i].explicit)

\* the text is one that <T as FromStr>::from_str accepts
parses_as(type, text) ==
    CASE type = "bool" -> text \in {"true", "false"}
      [] type = "String" -> TRUE
      [] type = "u64" ->
             LET digits == IF text # <<>> /\ Head(text) = "+"
                           THEN Tail(text) ELSE text
             IN  /\ digits # <<>>
                 /\ \A i \in 1..Len(digits) : digits[i] \in Digits
      [] type = "f64" -> is_some(parse_f64(text))

\* every environment variable of the option is missing or unparsable
nothing_usable(o) ==
    \A i \in 1..Len(o.variables) :
        \/ ~is_some(env[o.variables[i]])
        \/ ~parses_as(o.type, unwrap(env[o.variables[i]]))

----------------------------------------------------------------------------
(* Properties of start_gateway's use of the configuration *)

\* init_telemetry was invoked by start_gateway
init_telemetry_invoked == count_in(events, "init_telemetry") > 0

\* C23: any_signal_enabled is true iff one of the resolved tracing, metrics
\* and logging flags is; start_gateway invokes init_telemetry iff it is
\* true, and when it is false no manager, no provider and no subscriber is
\* ever created.
C23_TelemetryEngagedIffAnySignalEnabled ==
    /\ any_signal_enabled(config) <=> \E p \in Providers : signal_enabled(p)
    /\ pc # "start" =>
           (init_telemetry_invoked <=> \E p \in Providers : signal_enabled(p))
    /\ (\A p \in Providers : ~signal_enabled(p)) =>
           /\ ~init_telemetry_invoked
           /\ telemetry_manager = None
           /\ ~telemetry_initialized
           /\ init_result = None
           /\ provider_state = no_providers
           /\ subscriber = None
           /\ ~global_tracer /\ ~global_meter

\* the gateway serves without telemetry: metrics and logging are disabled
\* explicitly and OTEL_TRACING_ENABLED holds a text that is not a bool
C23_Witness ==
    /\ pc = "serving"
    /\ config.tracing.enabled = None
    /\ env["OTEL_TRACING_ENABLED"] = Some("1")
    /\ config.metrics.enabled = Some(FALSE)
    /\ config.logging.enabled = Some(FALSE)
    /\ ~init_telemetry_invoked
    /\ telemetry_manager = None

----------------------------------------------------------------------------
(* telemetry/mod.rs: error_code_to_status_code *)

\* the numbers of the error codes the classifier names
ErrorCodeNumbers ==
    [InternalError |-> 1, BadValue |-> 2, Unauthorized |-> 13,
     TypeMismatch |-> 14, AuthenticationFailed |-> 18,
     ExceededTimeLimit |-> 262, DuplicateKey |-> 11000]

\* ErrorCode::from_i32: the code with that number, None for a number that
\* is no code
ErrorCode_from_i32(code) ==
    {name \in DOMAIN ErrorCodeNumbers : ErrorCodeNumbers[name] = code}

error_code_to_status_code_unrecognized_is_500(error) ==
    IF error = None THEN 200
    ELSE LET code == ErrorCode_from_i32(unwrap(error))
         IN  IF code \in {Some("AuthenticationFailed"), Some("Unauthorized")}
             THEN 401
             ELSE IF code = Some("ExceededTimeLimit") THEN 408
             ELSE IF code = Some("DuplicateKey") THEN 409
             ELSE IF code = Some("InternalError") \/ code = None THEN 500
             ELSE 400

error_code_to_status_code(error) ==
    IF error = None THEN 200
    ELSE LET code == ErrorCode_from_i32(unwrap(error))
         IN  IF code \in {Some("AuthenticationFailed"), Some("Unauthorized")}
             THEN 401
             ELSE IF code = Some("InternalError") THEN 500
             ELSE IF code = Some("ExceededTimeLimit") THEN 408
             ELSE IF code = Some("DuplicateKey") THEN 409
             ELSE 400

\* the largest of the small numbers given to the classifier
MaxCode == 300

\* Option<i32> arguments: no error, the small numbers, the numbers around
\* DuplicateKey and the ends of the i32 range
ErrorArguments ==
    {None} \cup {Some(code) : code \in (0 - 2)..MaxCode}
           \cup {Some(10999), Some(11000), Some(11001),
                 Some(2147483647), Some(0 - 2147483647 - 1)}

ErrorCodeToStatusCode(error) ==
    /\ status_code = None
    /\ status_code' = Some([error |-> error,
                            status |-> error_code_to_status_code(error)])
    /\ UNCHANGED <<lifecycle_vars, command_vars, trace_vars, resolved,
                   measurements, emitters, layering>>

NextStatus == \E error \in ErrorArguments : ErrorCodeToStatusCode(error)

SpecStatus == InitCmd /\ [][NextStatus]_vars

\* the error code named by the argument of the call, None when the
\* argument is no error or a number that is no code
classified_code ==
    IF unwrap(status_code).error = None THEN None
    ELSE ErrorCode_from_i32(unwrap(unwrap(status_code).error))

\* C24: error_code_to_status_code is total: no error gives 200,
\* AuthenticationFailed and Unauthorized give 401, InternalError 500,
\* ExceededTimeLimit 408, DuplicateKey 409 and every other number, a
\* recognized code or not, gives 400.
C24_StatusCodeTable ==
    is_some(status_code) =>
        LET call == unwrap(status_code)
            expected ==
                CASE call.error = None -> 200
                  [] classified_code = {"AuthenticationFailed"} -> 401
                  [] classified_code = {"Unauthorized"} -> 401
                  [] classified_code = {"InternalError"} -> 500
                  [] classified_code = {"ExceededTimeLimit"} -> 408
                  [] classified_code = {"DuplicateKey"} -> 409
                  [] OTHER -> 400
        IN  call.status = expected

\* a number that is no error code was classified as 400
C24_Witness ==
    /\ is_some(status_code)
    /\ unwrap(status_code).error = Some(0 - 1)
    /\ unwrap(status_code).status = 400

----------------------------------------------------------------------------
(* telemetry/metrics.rs: OtelTelemetryProvider.  A number given to an       *)
(* instrument is whole + billionths / 10^9; the instruments' accumulation   *)
(* maps every measurement to the number of times it was added.              *)

real(whole, billionths) == [whole |-> whole, billionths |-> billionths]

\* `x as u64` of a length or a size
as_u64(x) == real(x, 0)

\* Duration::from_nanos(ns.max(0) as u64).as_secs_f64()
duration_to_secs(ns) ==
    LET nanos == IF ns > 0 THEN ns ELSE 0
    IN  real(nanos \div 1000000000, nanos % 1000000000)

KeyValue_new(key, value) == <<key, value>>

\* i32::to_string of the error codes given as arguments
to_string(code) ==
    CASE code = 2 -> "2"
      [] code = 13 -> "13"
      [] code = 11000 -> "11000"

\* RequestTracker::get_interval_elapsed_time
get_interval_elapsed_time(request_tracker, kind) == request_tracker[kind]

base_attrs_without_error_type(e) ==
    LET operation == IF is_some(e.request)
                     THEN unwrap(e.request).request_type ELSE "unknown"
        db_name == IF is_some(e.request) /\ is_some(unwrap(e.request).db)
                   THEN unwrap(unwrap(e.request).db) ELSE "unknown"
    IN  << KeyValue_new("db.system.name", "documentdb"),
           KeyValue_new("db.operation.name", operation),
           KeyValue_new("db.collection.name", e.collection),
           KeyValue_new("db.namespace", db_name) >>

\* record_request_metrics, lines 250-285: the attributes of the request
base_attrs(e) ==
    LET operation == IF is_some(e.request)
                     THEN unwrap(e.request).request_type ELSE "unknown"
        db_name == IF is_some(e.request) /\ is_some(unwrap(e.request).db)
                   THEN unwrap(unwrap(e.request).db) ELSE "unknown"
        db_system == KeyValue_new("db.system.name", "documentdb")
        db_operation == KeyValue_new("db.operation.name", operation)
        db_collection == KeyValue_new("db.collection.name", e.collection)
        db_namespace == KeyValue_new("db.namespace", db_name)
    IN  IF e.response.either = "Left"
        THEN <<db_system, db_operation, db_collection, db_namespace>>
        ELSE <<db_system, db_operation, db_collection, db_namespace,
               KeyValue_new("error.type", to_string(e.response.code))>>

measurement(instrument, value, attrs) ==
    [instrument |-> instrument, value |-> value, attrs |-> attrs]

\* record_request_metrics, lines 287-304: the statement-th of the four
\* unconditional Counter::add calls
base_measurement(e, statement) ==
    LET duration_ns ==
            get_interval_elapsed_time(e.request_tracker, "HandleRequest")
        response_size_bytes ==
            IF e.response.either = "Left"
            THEN as_u64(unwrap_or(e.response.raw_document, 0))
            ELSE as_u64(e.response.size)
    IN  CASE statement = 1 ->
                 measurement("operations_count", as_u64(1), base_attrs(e))
          [] statement = 2 ->
                 measurement("operation_duration_total",
                             duration_to_secs(duration_ns), base_attrs(e))
          [] statement = 3 ->
                 measurement("request_size_total", as_u64(e.header.length),
                             base_attrs(e))
          [] statement = 4 ->
                 measurement("response_size_total", response_size_bytes,
                             base_attrs(e))

\* the three phase intervals in the order of the statements, with the
\* label each is recorded under
Phases ==
    << [kind |-> "PostgresBeginTransaction",
        label |-> "postgres_begin_transaction"],
       [kind |-> "ProcessRequest", label |-> "postgres_execution"],
       [kind |-> "PostgresCommitTransaction", label |-> "postgres_commit"] >>

phase_measurement_of_every_interval(e, phase) ==
    LET ns == get_interval_elapsed_time(e.request_tracker, phase.kind)
    IN  Some(measurement(
            "operation_duration_total", duration_to_secs(ns),
            Append(base_attrs(e),
                   KeyValue_new("db.operation.phase", phase.label))))

\* record_request_metrics, lines 306-335: one `if ns > 0` block; None
\* when the block is skipped
phase_measurement(e, phase) ==
    LET ns == get_interval_elapsed_time(e.request_tracker, phase.kind)
    IN  IF ns > 0
        THEN Some(measurement(
                 "operation_duration_total", duration_to_secs(ns),
                 Append(base_attrs(e),
                        KeyValue_new("db.operation.phase", phase.label))))
        ELSE None

Counter_add_overwrites(accumulated, m) ==
    IF m \in DOMAIN accumulated THEN [accumulated EXCEPT ![m] = 1]
    ELSE accumulated @@ (m :> 1)

\* Counter::add on an instrument of the shared provider: atomic, one more
\* occurrence of the measurement
Counter_add(accumulated, m) ==
    IF m \in DOMAIN accumulated THEN [accumulated EXCEPT ![m] = @ + 1]
    ELSE accumulated @@ (m :> 1)

\* how many requests emit on the shared provider
MaxRequests == 2

Intervals ==
    [HandleRequest : {0 - 5, 1500000000},
     PostgresBeginTransaction : {0, 2000000},
     ProcessRequest : {0 - 5, 0, 250000000},
     PostgresCommitTransaction : {0 - 5, 1}]

ParsedRequests ==
    {None, Some([request_type |-> "find", db |-> Some("db1")]),
     Some([request_type |-> "insert", db |-> None])}

\* Either<&Response, (&CommandError, usize)>: a response whose raw document
\* has a length or cannot be read, or an error with its size
Outcomes ==
    {[either |-> "Left", raw_document |-> Some(300), code |-> 0, size |-> 0],
     [either |-> "Left", raw_document |-> None, code |-> 0, size |-> 0],
     [either |-> "Right", raw_document |-> None, code |-> 11000,
      size |-> 77]}

\* the arguments of emit_request_event
RequestEvents ==
    [header : [length : {16, 120}], request : ParsedRequests,
     response : Outcomes, collection : {"coll"},
     request_tracker : Intervals]

\* the arguments of the requests that emit next to the first one
ConcurrentEvents ==
    {e \in RequestEvents :
        /\ e.header.length = 120
        /\ e.request = Some([request_type |-> "find", db |-> Some("db1")])
        /\ e.response.either \in {"Right"}
        /\ e.request_tracker.HandleRequest = 1500000000
        /\ e.request_tracker.PostgresBeginTransaction = 0
        /\ e.request_tracker.ProcessRequest = 250000000
        /\ e.request_tracker.PostgresCommitTransaction \in {0 - 5, 1}}

emitter(e) == [event |-> e, pc |-> 0, recorded |-> <<>>]

InitMetrics ==
    /\ env = [n \in EnvNames |-> None]
    /\ config = [tracing |-> [enabled |-> Some(FALSE)],
                 metrics |-> [enabled |-> Some(TRUE)],
                 logging |-> [enabled |-> Some(FALSE),
                              console_enabled |-> None]]
    /\ pc = "serving"
    /\ telemetry_manager = None
    /\ telemetry_initialized = TRUE
    /\ init_result = None
    /\ subscriber = None
    /\ global_tracer = FALSE
    /\ global_meter = TRUE
    /\ TRACING_ENABLED = FALSE
    /\ provider_state = [no_providers EXCEPT !["meter"] = "live"]
    /\ worker_guard = "none"
    /\ gateway_telemetry = Some("OtelTelemetryProvider")
    /\ shutdown_token = FALSE
    /\ shutdown_self = None
    /\ shutdown_result = None
    /\ warnings = <<>>
    /\ events = <<"run_gateway">>
    /\ request = None
    /\ response = None
    /\ backend_calls = <<>>
    /\ collaborator_calls = <<>>
    /\ trace_comment = None
    /\ trace_context = None
    /\ query = None
    /\ traced_sql = None
    /\ resolved = None
    /\ status_code = None
    /\ measurements = <<>>
    /\ \E first \in RequestEvents,
          others \in [2..MaxRequests -> ConcurrentEvents] :
           emitters = [i \in 1..MaxRequests |->
                          emitter(IF i = 1 THEN first ELSE others[i])]
    /\ layering = no_layers

\* request i executes its next unconditional Counter::add
RecordBase(i) ==
    /\ emitters[i].pc < 4
    /\ LET m == base_measurement(emitters[i].event, emitters[i].pc + 1)
       IN  /\ measurements' = Counter_add(measurements, m)
           /\ emitters' = [emitters EXCEPT
                               ![i].pc = @ + 1,
                               ![i].recorded = Append(@, m)]
    /\ UNCHANGED <<lifecycle_vars, command_vars, trace_vars, resolved,
                   status_code, layering>>

\* request i executes its next `if ns > 0` block
RecordPhase(i) ==
    /\ emitters[i].pc \in 4..6
    /\ LET m == phase_measurement(emitters[i].event,
                                  Phases[emitters[i].pc - 3])
       IN  IF is_some(m)
           THEN /\ measurements' = Counter_add(measurements, unwrap(m))
                /\ emitters' = [emitters EXCEPT
                                    ![i].pc = @ + 1,
                                    ![i].recorded = Append(@, unwrap(m))]
           ELSE /\ measurements' = measurements
                /\ emitters' = [emitters EXCEPT ![i].pc = @ + 1]
    /\ UNCHANGED <<lifecycle_vars, command_vars, trace_vars, resolved,
                   status_code, layering>>

NextMetrics ==
    \/ \E i \in 1..MaxRequests : RecordBase(i)
    \/ \E i \in 1..MaxRequests : RecordPhase(i)

SpecMetrics == InitMetrics /\ [][NextMetrics]_vars

----------------------------------------------------------------------------
(* Properties of the metrics recorder *)

BaseInstruments == {"operations_count", "operation_duration_total",
                    "request_size_total", "response_size_total"}

\* the values of the attributes of a measurement that have this key
attribute(m, key) ==
    {m.attrs[j][2] : j \in {k \in 1..Len(m.attrs) : m.attrs[k][1] = key}}

\* how many attributes of a measurement have this key
attribute_count(m, key) ==
    Cardinality({k \in 1..Len(m.attrs) : m.attrs[k][1] = key})

\* a number of nanoseconds in seconds, a negative one counting as 0
seconds(ns) ==
    IF ns <= 0 THEN real(0, 0)
    ELSE real(ns \div 1000000000, ns % 1000000000)

completed(i) == emitters[i].pc = 7

\* C25: a completed request has emitted each of the four base measurements
\* exactly once (operation count 1, the HandleRequest interval in seconds
\* with a negative interval as 0, the header's declared length, and the
\* length of the response's raw document, 0 when it has none, or the given
\* error size), plus exactly one phase sub-metric for every phase interval
\* that is strictly positive, and nothing else.
C25_BaseMeasurementsAndPositivePhases ==
    \A i \in DOMAIN emitters :
        completed(i) =>
            LET log == emitters[i].recorded
                e == emitters[i].event
                base(instrument) ==
                    {j \in 1..Len(log) :
                        /\ log[j].instrument = instrument
                        /\ attribute_count(log[j], "db.operation.phase") = 0}
                the(instrument) ==
                    log[CHOOSE j \in base(instrument) : TRUE].value
                labelled(label) ==
                    {j \in 1..Len(log) :
                        attribute(log[j], "db.operation.phase") = {label}}
                positive == {k \in 1..3 :
                                e.request_tracker[Phases[k].kind] > 0}
            IN  /\ \A instrument \in BaseInstruments :
                       Cardinality(base(instrument)) = 1
                /\ the("operations_count") = real(1, 0)
                /\ the("operation_duration_total")
                       = seconds(e.request_tracker.HandleRequest)
                /\ the("request_size_total") = real(e.header.length, 0)
                /\ the("response_size_total")
                       = IF e.response.either = "Right"
                         THEN real(e.response.size, 0)
                         ELSE IF is_some(e.response.raw_document)
                         THEN real(unwrap(e.response.raw_document), 0)
                         ELSE real(0, 0)
                /\ \A k \in 1..3 :
                       LET found == labelled(Phases[k].label)
                       IN  IF k \in positive
                           THEN /\ Cardinality(found) = 1
                                /\ \A j \in found :
                                       /\ log[j].instrument
                                              = "operation_duration_total"
                                       /\ log[j].value = seconds(
                                              e.request_tracker[
                                                  Phases[k].kind])
                           ELSE found = {}
                /\ Len(log) = 4 + Cardinality(positive)

\* the first request completed with a negative HandleRequest interval, a
\* begin phase of 2 ms, an execution phase of 0 and a negative commit
\* phase: five measurements, the total duration 0 s, one phase sub-metric
C25_Witness ==
    /\ completed(1)
    /\ emitters[1].event.request_tracker
           = [HandleRequest |-> 0 - 5, PostgresBeginTransaction |-> 2000000,
              ProcessRequest |-> 0, PostgresCommitTransaction |-> 0 - 5]
    /\ Len(emitters[1].recorded) = 5
    /\ emitters[1].recorded[2].value = real(0, 0)
    /\ emitters[1].recorded[5].value = real(0, 2000000)
    /\ attribute(emitters[1].recorded[5], "db.operation.phase")
           = {"postgres_begin_transaction"}

\* C26: every measurement of a request carries the same base attributes:
\* the operation name ("unknown" when no command was parsed), the database
\* namespace ("unknown" when no command was parsed or its database cannot
\* be read) and the collection name; error.type with the error code iff
\* the outcome is an error; a phase sub-metric carries the base attributes
\* and exactly one phase label, any other measurement no phase label.
C26_MeasurementsCarryTheRequestAttributes ==
    \A i \in DOMAIN emitters :
        LET log == emitters[i].recorded
            e == emitters[i].event
            operation == IF e.request = None THEN "unknown"
                         ELSE unwrap(e.request).request_type
            namespace == IF e.request = None THEN "unknown"
                         ELSE IF unwrap(e.request).db = None THEN "unknown"
                         ELSE unwrap(unwrap(e.request).db)
        IN  \A j \in 1..Len(log) :
                LET m == log[j]
                    phases == attribute_count(m, "db.operation.phase")
                IN  /\ attribute(m, "db.operation.name") = {operation}
                    /\ attribute_count(m, "db.operation.name") = 1
                    /\ attribute(m, "db.namespace") = {namespace}
                    /\ attribute_count(m, "db.namespace") = 1
                    /\ attribute(m, "db.collection.name") = {e.collection}
                    /\ attribute_count(m, "db.collection.name") = 1
                    /\ IF e.response.either = "Right"
                       THEN /\ attribute_count(m, "error.type") = 1
                            /\ e.response.code = 11000 =>
                                   attribute(m, "error.type") = {"11000"}
                       ELSE attribute_count(m, "error.type") = 0
                    /\ phases = IF j > 4 THEN 1 ELSE 0
                    /\ Len(m.attrs) = Len(log[1].attrs) + phases
                    /\ SubSeq(m.attrs, 1, Len(log[1].attrs)) = log[1].attrs

\* the first request, for which no command was parsed, failed with
\* DuplicateKey and recorded its commit phase with error.type and the label
C26_Witness ==
    /\ completed(1)
    /\ emitters[1].event.request = None
    /\ emitters[1].event.response.either = "Right"
    /\ emitters[1].event.request_tracker.PostgresCommitTransaction = 1
    /\ LET m == emitters[1].recorded[Len(emitters[1].recorded)]
       IN  m.attrs = << <<"db.system.name", "documentdb">>,
                        <<"db.operation.name", "unknown">>,
                        <<"db.collection.name", "coll">>,
                        <<"db.namespace", "unknown">>,
                        <<"error.type", "11000">>,
                        <<"db.operation.phase", "postgres_commit">> >>

\* how often the requests together recorded a measurement
RECURSIVE recorded_by(_, _)
recorded_by(n, m) ==
    IF n = 0 THEN 0
    ELSE count_in(emitters[n].recorded, m) + recorded_by(n - 1, m)

\* the sum an instrument with whole-numbered values has accumulated
RECURSIVE accumulated_whole(_, _)
accumulated_whole(instrument, ms) ==
    IF ms = {} THEN 0
    ELSE LET m == CHOOSE x \in ms : TRUE
         IN  (IF m.instrument = instrument
              THEN measurements[m] * m.value.whole ELSE 0)
                 + accumulated_whole(instrument, ms \ {m})

\* C27: in every interleaving of the requests emitting on the shared
\* provider, every measurement of a request carries that request's own
\* attributes, the instruments have accumulated every measurement exactly
\* as often as the requests recorded it, and the operation count is the
\* number of requests that have counted themselves (all of them once all
\* have completed).
C27_ConcurrentEmissionAccumulatesEveryRequest ==
    LET n == Len(emitters)
        recorded == UNION {{emitters[i].recorded[j] :
                               j \in 1..Len(emitters[i].recorded)} :
                           i \in 1..n}
    IN  /\ DOMAIN measurements = recorded
        /\ \A m \in recorded : measurements[m] = recorded_by(n, m)
        /\ \A i \in 1..n :
               \A j \in 1..Len(emitters[i].recorded) :
                   LET own == base_attrs(emitters[i].event)
                       m == emitters[i].recorded[j]
                   IN  SubSeq(m.attrs, 1, Len(own)) = own
        /\ accumulated_whole("operations_count", DOMAIN measurements)
               = Cardinality({i \in 1..n : emitters[i].pc >= 1})
        /\ (\A i \in 1..n : completed(i)) =>
               accumulated_whole("operations_count", DOMAIN measurements)
                   = n

\* two requests with the same attributes are both in the middle of
\* record_request_metrics and the operation count holds both of them
C27_Witness ==
    /\ Len(emitters) >= 2
    /\ emitters[1].pc = 2
    /\ emitters[2].pc = 3
    /\ base_attrs(emitters[1].event) = base_attrs(emitters[2].event)
    /\ measurements[emitters[1].recorded[1]] = 2

----------------------------------------------------------------------------
(* telemetry/logging.rs get_env_filter and the three places where           *)
(* init_telemetry gives a layer its level filter: logging.rs 225-227 (log   *)
(* bridge), telemetry_manager.rs 79-86 (trace layer) and 88-96 (console     *)
(* layer).  A filter is written as the directive text it was parsed from.   *)

LevelNames == {"trace", "debug", "info", "warn", "error"}

\* EnvFilter::builder().parse: Err for text that is not a list of directives
EnvFilter_parse(text) == IF text \in LevelNames THEN Some(text) ELSE None

\* EnvFilter::try_from_default_env: Err when RUST_LOG is unset or does not
\* parse
try_from_default_env ==
    IF is_some(env["RUST_LOG"]) THEN EnvFilter_parse(unwrap(env["RUST_LOG"]))
    ELSE None

\* logging.rs get_env_filter
get_env_filter(log_level) ==
    unwrap_or(or_else(try_from_default_env, EnvFilter_parse(log_level)),
              unwrap(EnvFilter_parse("info")))

\* a layer .with_filter(get_env_filter(&config.level()))
filtered_layer(name) ==
    [layer |-> name,
     level |-> level(config.logging),
     filter |-> get_env_filter(level(config.logging))]

\* texts of RUST_LOG and of Logging.Level: two levels and a text with one
\* "=" too many
LevelTexts == {"debug", "warn", "a=b=c"}

\* how often the process environment is changed while init_telemetry runs
MaxEnvChanges == 1

no_env == [v \in DOMAIN EnvTypes |-> None]

InitLayers ==
    /\ \E rust_log \in {None} \cup {Some(t) : t \in LevelTexts},
          tracing \in {None, Some("true")} :
           env = [no_env EXCEPT !["RUST_LOG"] = rust_log,
                                !["OTEL_TRACING_ENABLED"] = tracing]
    /\ \E explicit_level \in {None} \cup {Some(t) : t \in LevelTexts},
          tracing \in OptBool, logging \in OptBool, console \in OptBool :
           config = TelemetryConfig_new(
                        [no_options EXCEPT
                             !["Logging.Level"] = explicit_level,
                             !["Tracing.Enabled"] = tracing,
                             !["Logging.Enabled"] = logging,
                             !["Logging.ConsoleEnabled"] = console])
    /\ pc = "start"
    /\ telemetry_manager = None
    /\ telemetry_initialized = FALSE
    /\ init_result = None
    /\ subscriber = None
    /\ global_tracer = FALSE
    /\ global_meter = FALSE
    /\ TRACING_ENABLED = FALSE
    /\ provider_state = no_providers
    /\ worker_guard = "none"
    /\ gateway_telemetry = None
    /\ shutdown_token = FALSE
    /\ shutdown_self = None
    /\ shutdown_result = None
    /\ warnings = <<>>
    /\ events = <<>>
    /\ request = None
    /\ response = None
    /\ backend_calls = <<>>
    /\ collaborator_calls = <<>>
    /\ trace_comment = None
    /\ trace_context = None
    /\ query = None
    /\ traced_sql = None
    /\ resolved = None
    /\ status_code = None
    /\ measurements = <<>>
    /\ emitters = <<>>
    /\ layering = no_layers

layering_unchanged ==
    UNCHANGED <<config, pc, telemetry_manager, telemetry_initialized,
                init_result, subscriber, global_tracer, global_meter,
                TRACING_ENABLED, provider_state, worker_guard,
                gateway_telemetry, shutdown_token, shutdown_self,
                shutdown_result, warnings, events, command_vars, trace_vars,
                resolved, status_code, measurements, emitters>>

\* logging.rs create_logging_provider, lines 225-229
LogBridgeLayer ==
    /\ layering.pc = "create_logging_provider"
    /\ layering' = [layering EXCEPT
                        !.pc = "trace_layer",
                        !.layers = IF logging_enabled(config.logging)
                                   THEN Append(@, filtered_layer("log_bridge"))
                                   ELSE @]
    /\ UNCHANGED env
    /\ layering_unchanged

\* telemetry_manager.rs 79-86
TraceLayer ==
    /\ layering.pc = "trace_layer"
    /\ layering' = [layering EXCEPT
                        !.pc = "console_layer",
                        !.layers = IF tracing_enabled(config.tracing)
                                   THEN Append(@, filtered_layer("otel_trace"))
                                   ELSE @]
    /\ UNCHANGED env
    /\ layering_unchanged

\* telemetry_manager.rs 88-96
ConsoleLayer ==
    /\ layering.pc = "console_layer"
    /\ layering' = [layering EXCEPT
                        !.pc = "try_init",
                        !.layers = IF console_enabled(config.logging)
                                   THEN Append(@, filtered_layer("console"))
                                   ELSE @]
    /\ UNCHANGED env
    /\ layering_unchanged

\* std::env::set_var("RUST_LOG", ..) or remove_var in another thread of the
\* process while init_telemetry runs
SetRustLog(value) ==
    /\ layering.env_changes < MaxEnvChanges
    /\ layering.pc # "try_init"
    /\ env["RUST_LOG"] # value
    /\ env' = [env EXCEPT !["RUST_LOG"] = value]
    /\ layering' = [layering EXCEPT !.env_changes = @ + 1]
    /\ layering_unchanged

NextLayers ==
    \/ LogBridgeLayer
    \/ TraceLayer
    \/ ConsoleLayer
    \/ \E value \in {None} \cup {Some(t) : t \in LevelTexts} :
           SetRustLog(value)

SpecLayers == InitLayers /\ [][NextLayers]_vars

----------------------------------------------------------------------------
(* Properties of the level filters *)

\* the filter a level text stands for: "info" when the text is no filter
filter_of_level(text) == IF text \in LevelNames THEN text ELSE "info"

\* C28: every layer init_telemetry builds is filtered by the filter of the
\* resolved logging level: an explicitly configured level wins over
\* RUST_LOG, and RUST_LOG is used only when no explicit level is given.
C28_AppliedFilterIsOfTheResolvedLevel ==
    \A i \in 1..Len(layering.layers) :
        LET l == layering.layers[i]
        IN  /\ l.filter = filter_of_level(l.level)
            /\ is_some(config.logging.level) =>
                   l.filter = filter_of_level(unwrap(config.logging.level))

\* C29: every read of the logging level that init_telemetry makes through
\* the constructed TelemetryConfig returns the same value, whatever happens
\* to the process environment between the reads.
C29_LevelReadsAreOneSnapshot ==
    \A i, j \in 1..Len(layering.layers) :
        layering.layers[i].level = layering.layers[j].level

----------------------------------------------------------------------------
(* Properties of a failed init_telemetry *)

\* C30: whenever init_telemetry has returned an error, no tracer or meter
\* provider is installed as process-wide default and no provider it built
\* is still live.
C30_FailedInitLeavesNothingBehind ==
    (is_some(init_result) /\ ~unwrap(init_result).ok) =>
        /\ ~global_tracer
        /\ ~global_meter
        /\ \A p \in Providers : provider_state[p] # "live"

====
